---- MODULE Spec2Model ----
(***************************************************************************)
(* ShopSight analytics prototype: the forecast engine (app/forecasting.py) *)
(* the aggregation engine (app/insights.py) and the narrative generator    *)
(* (app/llm.py), modelled as state machines over exact rational numbers.   *)
(*                                                                         *)
(* Numbers.  A Python float is modelled as an exact rational [n, d] in     *)
(* lowest terms; the one irrational operation of the program, the square   *)
(* root inside numpy's std(), is rounded down to a multiple of             *)
(* 1/SqrtPrecision.  Money amounts of the aggregation engine are integers  *)
(* counted in thousandths of the currency unit (mills), so that rounding   *)
(* to two decimals is a real operation.  Dates are day numbers, day 0      *)
(* being a Monday; months are month numbers (year * 12 + month - 1).       *)
(***************************************************************************)
EXTENDS Integers, Sequences, FiniteSets, TLC

VARIABLES
    pc,         \* which call of the scenario is pending, or "done"
    monthly,    \* forecast_next_period's argument: the monthly rollup
    digest,     \* hashlib.sha1 as observed so far: product name -> seed
    forecast,   \* outcome of the last forecast call
    tx,         \* the transactions DataFrame handed to the aggregation engine
    time_series,     \* result of compute_time_series
    metrics,    \* result of compute_summary_metrics
    windows,    \* compute_summary_metrics' locals: the two 30-day window sums
    mix,        \* result of compute_mix
    env,        \* what _call_openai meets: library, credential, client, response
    call,       \* the arguments of the narrative function called
    reply,      \* outcome of the narrative function called
    database,   \* data/shopsight.db: whether the file exists, and its tables
    lookup,     \* the adapter function called, its arguments and its outcome
    observed,   \* the calls made so far and what each returned, in order
    session     \* one run of main: the store it reads, the page it renders, its locals

forecastVars == <<monthly, digest, forecast>>
aggVars == <<tx, time_series, metrics, windows, mix>>
llmVars == <<env, call, reply>>
adapterVars == <<database, lookup>>

vars == <<pc, forecastVars, aggVars, llmVars, session, adapterVars, observed>>

----------------------------------------------------------------------------
(* Bounds of the model *)

MaxMonths == 7
SqrtPrecision == 100
MaxTx == 3

----------------------------------------------------------------------------
(* Exact rational arithmetic *)

Abs(x) == IF x < 0 THEN -x ELSE x

RECURSIVE GCD(_, _)
GCD(a, b) == IF b = 0 THEN a ELSE GCD(b, a % b)

LCM(a, b) == (a \div GCD(a, b)) * b

R(num, den) ==
    LET g == GCD(Abs(num), den)
    IN  [n |-> num \div g, d |-> den \div g]

RInt(k) == [n |-> k, d |-> 1]

RAdd(a, b) ==
    LET l == LCM(a.d, b.d)
    IN  R(a.n * (l \div a.d) + b.n * (l \div b.d), l)

RNeg(a) == [n |-> -a.n, d |-> a.d]

RSub(a, b) == RAdd(a, RNeg(b))

RMul(a, b) ==
    LET g1 == GCD(Abs(a.n), b.d)
        g2 == GCD(Abs(b.n), a.d)
    IN  R((a.n \div g1) * (b.n \div g2), (a.d \div g2) * (b.d \div g1))

RDiv(a, b) ==
    IF b.n > 0 THEN RMul(a, [n |-> b.d, d |-> b.n])
    ELSE RMul(a, [n |-> -b.d, d |-> -b.n])

RLe(a, b) ==
    LET l == LCM(a.d, b.d)
    IN  a.n * (l \div a.d) <= b.n * (l \div b.d)

RLt(a, b) == ~RLe(b, a)

\* Python's max(a, b): the first argument unless the second is greater
RMax(a, b) == IF RLt(a, b) THEN b ELSE a

RFloor(a) == a.n \div a.d

\* Python's round() of a float: to the nearest integer, ties to even
RoundHalfEven(a) ==
    LET f    == RFloor(a)
        rem2 == 2 * (a.n - f * a.d)
    IN  IF rem2 < a.d THEN f
        ELSE IF rem2 > a.d THEN f + 1
        ELSE IF f % 2 = 0 THEN f ELSE f + 1

RECURSIVE ISqrtBetween(_, _, _)
ISqrtBetween(x, lo, hi) ==
    IF lo >= hi THEN lo
    ELSE LET mid == (lo + hi + 1) \div 2
         IN  IF mid * mid <= x THEN ISqrtBetween(x, mid, hi)
             ELSE ISqrtBetween(x, lo, mid - 1)

\* floor of the square root of a natural number
ISqrt(x) == ISqrtBetween(x, 0, IF x < 46340 THEN x ELSE 46340)

\* numpy's sqrt, rounded down to a multiple of 1/SqrtPrecision
RSqrt(a) ==
    R(ISqrt((a.n * SqrtPrecision * SqrtPrecision) \div a.d), SqrtPrecision)

RECURSIVE SumSeq(_)
SumSeq(s) == IF s = <<>> THEN 0 ELSE Head(s) + SumSeq(Tail(s))

RECURSIVE RSumSeq(_)
RSumSeq(s) == IF s = <<>> THEN RInt(0) ELSE RAdd(Head(s), RSumSeq(Tail(s)))

\* Python's s[-k:]
LastK(s, k) ==
    IF Len(s) <= k THEN s ELSE SubSeq(s, Len(s) - k + 1, Len(s))

----------------------------------------------------------------------------
(* app/forecasting.py *)

NoForecast == [method |-> "none"]

Returned(v) == [raised |-> "none", value |-> v]
Raised(e) == [raised |-> e, value |-> NoForecast]

RECURSIVE InsertByMonth(_, _)
InsertByMonth(row, s) ==
    IF s = <<>> THEN <<row>>
    ELSE IF row.month_start < Head(s).month_start THEN <<row>> \o s
    ELSE <<Head(s)>> \o InsertByMonth(row, Tail(s))

RECURSIVE SortByMonth(_)
\* DataFrame.sort_values("month_start").reset_index(drop=True)
SortByMonth(s) ==
    IF s = <<>> THEN <<>>
    ELSE InsertByMonth(s[Len(s)], SortByMonth(SubSeq(s, 1, Len(s) - 1)))

Column(rows, f) == [i \in 1..Len(rows) |-> rows[i][f]]

\* ndarray.mean() of a sequence of rationals
RMean(arr) == RDiv(RSumSeq(arr), RInt(Len(arr)))

AsFloats(ints) == [i \in 1..Len(ints) |-> RInt(ints[i])]

\* ndarray.std(): sqrt(mean(|a - a.mean()|^2))
RStd(arr) ==
    LET m  == RMean(arr)
        sq == [i \in 1..Len(arr) |-> RMul(RSub(arr[i], m), RSub(arr[i], m))]
    IN  RSqrt(RMean(sq))

TenthOf(prediction) == RMul(prediction, R(1, 10))

\* a plausible slip: the band not floored at a tenth of the prediction
_make_confidence_interval_std_only(series, prediction) ==
    LET arr == AsFloats(series)
    IN  IF Len(arr) < 2
        THEN (IF TenthOf(prediction).n = 0 THEN RInt(1) ELSE TenthOf(prediction))
        ELSE RStd([i \in 1..Len(arr) |-> RSub(arr[i], RMean(arr))])

_make_confidence_interval(series, prediction) ==
    LET arr == AsFloats(series)
    IN  IF Len(arr) < 2
        THEN (IF TenthOf(prediction).n = 0 THEN RInt(1) ELSE TenthOf(prediction))
        ELSE LET mean      == RMean(arr)
                 residuals == [i \in 1..Len(arr) |-> RSub(arr[i], mean)]
                 std       == RStd(residuals)
             IN  RMax(std, TenthOf(prediction))

\* np.polyfit(x, y, deg=1) with x = 0..n-1: the least-squares line, from the
\* normal equations
polyfit(y) ==
    LET n   == Len(y)
        sx  == SumSeq([i \in 1..n |-> i - 1])
        sxx == SumSeq([i \in 1..n |-> (i - 1) * (i - 1)])
        sy  == SumSeq(y)
        sxy == SumSeq([i \in 1..n |-> (i - 1) * y[i]])
        slope == R(n * sxy - sx * sy, n * sxx - sx * sx)
    IN  [slope |-> slope,
         intercept |-> RDiv(RSub(RInt(sy), RMul(slope, RInt(sx))), RInt(n))]

\* np.poly1d(coefficients)(idx)
poly1d(c, idx) == RAdd(RMul(c.slope, RInt(idx)), c.intercept)

trend_weight == R(65, 100)
mean_weight == R(35, 100)

\* revenue_trend(next_index) / units_trend(next_index)
\* a plausible slip: the line read at the last observed index, not the next
TrendAtLast(values, idx) ==
    IF Len(values) >= 2 THEN poly1d(polyfit(values), idx - 1)
    ELSE RInt(values[Len(values)])

TrendAt(values, idx) ==
    IF Len(values) >= 2 THEN poly1d(polyfit(values), idx)
    ELSE RInt(values[Len(values)])

\* a plausible slip: the mean of the whole history instead of the last three
RollingMeanOfAll(values) == RMean(AsFloats(values))

\* revenue[-3:].mean() if len(revenue) >= 3 else revenue.mean()
RollingMean(values) ==
    IF Len(values) >= 3 THEN RMean(AsFloats(LastK(values, 3)))
    ELSE RMean(AsFloats(values))

\* a plausible slip: the rolling mean computed and then left out of the blend
PointForecastTrendOnly(values) ==
    RMax(TrendAt(values, Len(values)), RInt(0))

\* a plausible slip: the floor at zero (lines 77-78) left out
PointForecastUnfloored(values) ==
    RAdd(RMul(trend_weight, TrendAt(values, Len(values))),
         RMul(mean_weight, RollingMean(values)))

PointForecast(values) ==
    LET pred == RAdd(RMul(trend_weight, TrendAt(values, Len(values))),
                     RMul(mean_weight, RollingMean(values)))
    IN  RMax(pred, RInt(0))

\* (pd.Period(m, freq="M") + 1).strftime("%Y-%m"), as <<year, month>>
NextPeriodLabel(last_month) ==
    <<(last_month + 1) \div 12, ((last_month + 1) % 12) + 1>>

IntMax(a, b) == IF b > a THEN b ELSE a

\* lines 53-94: the forecast of a non-empty rollup
ForecastOf(monthly_arg) ==
    LET sorted       == SortByMonth(monthly_arg)
        revenue      == Column(sorted, "revenue")
        units        == Column(sorted, "units")
        revenue_pred == PointForecast(revenue)
        units_pred   == PointForecast(units)
        revenue_ci   == _make_confidence_interval(LastK(revenue, 6), revenue_pred)
        units_ci     == _make_confidence_interval(LastK(units, 6), units_pred)
    IN  [period_label |-> NextPeriodLabel(sorted[Len(sorted)].month_start),
         revenue      |-> revenue_pred,
         revenue_low  |-> RMax(RSub(revenue_pred, revenue_ci), RInt(0)),
         revenue_high |-> RAdd(revenue_pred, revenue_ci),
         units        |-> RoundHalfEven(units_pred),
         units_low    |-> IntMax(RoundHalfEven(RSub(units_pred, units_ci)), 0),
         units_high   |-> RoundHalfEven(RAdd(units_pred, units_ci)),
         method       |-> "weighted_trend"]

\* a plausible slip: the emptiness guard written as "fewer than two months"
forecast_next_period_guard2(monthly_arg) ==
    IF Len(monthly_arg) < 2 THEN Raised("ValueError")
    ELSE Returned(ForecastOf(monthly_arg))

forecast_next_period(monthly_arg) ==
    IF monthly_arg = <<>> THEN Raised("ValueError")
    ELSE Returned(ForecastOf(monthly_arg))

----------------------------------------------------------------------------
(* app/insights.py: the mock projection *)

\* a plausible slip: a hash that is not stable from one call to the next
_hash_product_unstable(sha1, product_name) == sha1[product_name] + Len(observed)

\* int(hashlib.sha1(name).hexdigest(), 16): sha1 is the digest function, a map
\* from product names to integers.  Only seed % 25000, seed % 350, seed % 10
\* and (seed // 3) % 10 are ever read, so a seed is kept modulo 525000.
_hash_product(sha1, product_name) == sha1[product_name]

generate_mock_forecast(sha1, product_name) ==
    LET seed       == _hash_product(sha1, product_name)
        revenue    == 40000 + (seed % 25000)
        revenue_ci == RMax(RMul(RInt(revenue), R(12, 100)), RInt(3500))
        units      == 900 + (seed % 350)
        units_ci   == IntMax(RFloor(RMul(RInt(units), R(15, 100))), 45)
    IN  [period_label |-> "Next 30 Days",
         revenue      |-> RInt(revenue),
         revenue_low  |-> RSub(RInt(revenue), revenue_ci),
         revenue_high |-> RAdd(RInt(revenue), revenue_ci),
         units        |-> units,
         units_low    |-> IntMax(units - units_ci, 0),
         units_high   |-> units + units_ci,
         method       |-> "mock_projection"]

\* str(n) for n >= 0
Digit(d) == <<"0", "1", "2", "3", "4", "5", "6", "7", "8", "9">>[d + 1]

RECURSIVE IntText(_)
IntText(n) == IF n < 10 THEN Digit(n) ELSE IntText(n \div 10) \o Digit(n % 10)

\* a plausible slip: the rounding adjustment is left out
MockSharesUnadjusted(seed) ==
    LET base_shares == <<45 + (seed % 10), 30 + ((seed \div 3) % 10), 100>>
        total       == SumSeq(base_shares)
    IN  [i \in 1..3 |-> RoundHalfEven(R(base_shares[i] * 100, total))]

\* lines 154-162: the three shares, in percent
MockShares(seed) ==
    LET base_shares == <<45 + (seed % 10), 30 + ((seed \div 3) % 10), 100>>
        total       == SumSeq(base_shares)
        rounded     == [i \in 1..3 |-> RoundHalfEven(R(base_shares[i] * 100, total))]
        adjustment  == 100 - SumSeq(rounded)
    IN  [rounded EXCEPT ![1] = @ + adjustment]

\* lines 152-180
generate_mock_segments(sha1, product_name) ==
    LET seed   == _hash_product(sha1, product_name)
        shares == MockShares(seed)
    IN  <<[segment |-> "Digital Loyalists", share |-> IntText(shares[1]) \o "%",
           traits  |-> "Frequent shoppers who engage with push alerts and in-app exclusives."],
          [segment |-> "Store Stylists", share |-> IntText(shares[2]) \o "%",
           traits  |-> "Prefer in-store styling sessions and tactile experiences before purchasing."],
          [segment |-> "Seasonal Gifters", share |-> IntText(shares[3]) \o "%",
           traits  |-> "Buy around key holidays; respond well to curated gift guides and bundles."]>>

----------------------------------------------------------------------------
(* app/insights.py: the aggregation engine.  Money is counted in mills. *)

\* Series.round(2) / round(x, 2) of an amount in mills: to the nearest cent,
\* ties to the even cent
Round2(x) == 10 * RoundHalfEven(R(x.n, x.d * 10))

Rows(t) == {t[i] : i \in 1..Len(t)}

Indices(t) == 1..Len(t)

RECURSIVE SumOver(_, _, _)
\* sum of field f over the rows of t whose index is in idx
SumOver(t, idx, f) ==
    IF idx = {} THEN 0
    ELSE LET i == CHOOSE j \in idx : TRUE
         IN  t[i][f] + SumOver(t, idx \ {i}, f)

MinOf(S) == CHOOSE x \in S : \A y \in S : x <= y
MaxOf(S) == CHOOSE x \in S : \A y \in S : x >= y

\* a plausible slip: weeks anchored on Monday (freq "W-MON")
WeekRollbackToMonday(day) == day - (day % 7)

\* Day 0 is a Monday: weekday 0 = Monday .. 6 = Sunday.  freq "W" is W-SUN, so
\* Week.rollback gives the Sunday on or before a day
WeekRollback(day) == day - ((day + 1) % 7)

\* a plausible slip: the last edge rolled forward to the Sunday on or after
\* the last day, which is that day itself when it is a Sunday
WeekRollforwardOnOffset(day) == day + ((6 - (day % 7)) % 7)

\* day + Week(weekday=6): the first Sunday strictly after a day
WeekRollforward(day) == WeekRollback(day) + 7

\* a plausible slip: closed="right", the bin (left, left + 7]
BinIndicesClosedRight(t, left) ==
    {i \in Indices(t) : left < t[i].transaction_date
                        /\ t[i].transaction_date <= left + 7}

\* the rows a bin [left, left + 7) takes with closed="left"
BinIndices(t, left) ==
    {i \in Indices(t) : left <= t[i].transaction_date
                        /\ t[i].transaction_date < left + 7}


\* the bin edges of resample("W", label="left", closed="left"): from the
\* rollback of the first date to the roll-forward of the last, labelled left
BinLabels(t) ==
    LET dates == {t[i].transaction_date : i \in Indices(t)}
        first == WeekRollback(MinOf(dates))
        last  == WeekRollforward(MaxOf(dates))
    IN  [k \in 1..((last - first) \div 7) |-> first + 7 * (k - 1)]

compute_time_series(t) ==
    LET labels == BinLabels(t)
    IN  [k \in 1..Len(labels) |->
            [period_start |-> labels[k],
             units   |-> SumOver(t, BinIndices(t, labels[k]), "units"),
             revenue |-> Round2(RInt(SumOver(t, BinIndices(t, labels[k]),
                                             "gross_revenue")))]]

\* a plausible slip: growth from a zero base reported as 100%
_growth_from_zero(current, previous) ==
    IF previous = 0 THEN R(100, 1)
    ELSE R(RoundHalfEven(R((current - previous) * 10000, previous)), 100)

\* round((current - previous) / previous * 100, 2), a percentage
_growth(current, previous) ==
    IF previous = 0 THEN RInt(0)
    ELSE R(RoundHalfEven(R((current - previous) * 10000, previous)), 100)

\* a plausible slip: the recent window closed on the left (>=)
RecentIndicesClosed(t, recent_start) ==
    {i \in Indices(t) : t[i].transaction_date >= recent_start}

\* transactions[transactions["transaction_date"] > recent_start]
RecentIndices(t, recent_start) ==
    {i \in Indices(t) : t[i].transaction_date > recent_start}


PrevIndices(t, prev_start, recent_start) ==
    {i \in Indices(t) : t[i].transaction_date > prev_start
                        /\ t[i].transaction_date <= recent_start}

\* the locals of compute_summary_metrics at line 61
WindowSums(t) ==
    LET end_date     == MaxOf({t[i].transaction_date : i \in Indices(t)})
        recent_start == end_date - 30
        prev_start   == recent_start - 30
        recent       == RecentIndices(t, recent_start)
        prev         == PrevIndices(t, prev_start, recent_start)
    IN  [recent_revenue |-> SumOver(t, recent, "gross_revenue"),
         prev_revenue   |-> SumOver(t, prev, "gross_revenue"),
         recent_units   |-> SumOver(t, recent, "units"),
         prev_units     |-> SumOver(t, prev, "units")]

gross_margin_pct == 38

compute_summary_metrics(t) ==
    LET w == WindowSums(t)
    IN  [total_revenue      |-> Round2(RInt(SumOver(t, Indices(t), "gross_revenue"))),
         total_units        |-> SumOver(t, Indices(t), "units"),
         avg_unit_price     |-> Round2(R(SumOver(t, Indices(t), "unit_price"), Len(t))),
         gross_margin_pct   |-> gross_margin_pct,
         revenue_30d        |-> Round2(RInt(w.recent_revenue)),
         revenue_30d_growth |-> _growth(w.recent_revenue, w.prev_revenue),
         units_30d          |-> w.recent_units,
         units_30d_growth   |-> _growth(w.recent_units, w.prev_units)]


\* the category values in the order groupby sorts them (alphabetical)
SortedCategories(column) ==
    IF column = "channel" THEN <<"Online", "Other", "Retail Store">>
    ELSE <<"Canada", "Europe", "US-East", "US-Midwest", "US-South", "US-West">>

\* a plausible slip: the rows are not grouped, each makes an entry of its own
GroupRevenueByRow(t, column) ==
    [i \in 1..Len(t) |-> [category |-> t[i][column], revenue |-> t[i].gross_revenue]]

\* transactions.groupby(column)["gross_revenue"].sum().reset_index(name="revenue")
GroupRevenue(t, column) ==
    LET all     == SortedCategories(column)
        present == SelectSeq(all, LAMBDA c : \E i \in Indices(t) : t[i][column] = c)
    IN  [k \in 1..Len(present) |->
            [category |-> present[k],
             revenue  |-> SumOver(t, {i \in Indices(t) : t[i][column] = present[k]},
                                  "gross_revenue")]]

RECURSIVE InsertByRevenueDesc(_, _)
InsertByRevenueDesc(row, s) ==
    IF s = <<>> THEN <<row>>
    ELSE IF row.revenue > Head(s).revenue THEN <<row>> \o s
    ELSE <<Head(s)>> \o InsertByRevenueDesc(row, Tail(s))

RECURSIVE SortByRevenueDesc(_)
\* sort_values("revenue", ascending=False); rows of equal revenue keep the
\* order of their keys
SortByRevenueDesc(s) ==
    IF s = <<>> THEN <<>>
    ELSE InsertByRevenueDesc(s[Len(s)], SortByRevenueDesc(SubSeq(s, 1, Len(s) - 1)))

\* a plausible slip: the share cut to two decimals instead of rounded
ShareOfTruncated(revenue, total) == R(RFloor(R(revenue * 10000, total)), 100)

\* (revenue / total * 100).round(2), a percentage
ShareOf(revenue, total) == R(RoundHalfEven(R(revenue * 10000, total)), 100)

compute_mix(t, column) ==
    LET grouped == SortByRevenueDesc(GroupRevenue(t, column))
        sum     == SumSeq(Column(grouped, "revenue"))
        total   == IF sum = 0 THEN 1000 ELSE sum
    IN  [k \in 1..Len(grouped) |->
            [category |-> grouped[k].category,
             revenue  |-> grouped[k].revenue,
             share    |-> ShareOf(grouped[k].revenue, total)]]

channel_mix(t) == compute_mix(t, "channel")

region_mix(t) == compute_mix(t, "region")

----------------------------------------------------------------------------
(* app/llm.py: texts.  A text is a sequence of fragments: literal pieces,   *)
(* whitespace, interpolated figures, or one JSON document.                  *)

NoDoc == [t |-> "none"]

Frag(kind, what) == [kind |-> kind, what |-> what, doc |-> NoDoc]

Lit(s) == <<Frag("lit", s)>>

\* a value interpolated by an f-string: its source ("metrics", "forecast",
\* "segment", "arg", ...) and the key read
Fig(source, key) == <<Frag(source, key)>>

Space == <<Frag("ws", " ")>>

\* the text of a JSON document
JsonText(doc) == <<[kind |-> "json", what |-> doc.t, doc |-> doc]>>

RECURSIVE LStrip(_)
LStrip(text) ==
    IF text # <<>> /\ Head(text).kind = "ws" THEN LStrip(Tail(text)) ELSE text

RECURSIVE RStrip(_)
RStrip(text) ==
    IF text # <<>> /\ text[Len(text)].kind = "ws"
    THEN RStrip(SubSeq(text, 1, Len(text) - 1))
    ELSE text

\* str.strip()
Strip(text) == RStrip(LStrip(text))

\* Optional[str]: None, or a text
None == [none |-> TRUE, text |-> <<>>]
Some(text) == [none |-> FALSE, text |-> text]

\* Python truthiness of an Optional[str]
Truthy(opt) == ~opt.none /\ opt.text # <<>>

\* json.loads: the document when the text is one (whitespace around it is
\* skipped), JSONDecodeError otherwise
IsJson(text) == Len(Strip(text)) = 1 /\ Strip(text)[1].kind = "json"

json_loads(text) == Strip(text)[1].doc

----------------------------------------------------------------------------
(* app/llm.py: the service call *)

Outcome(e, opt, acts) ==
    [raised |-> e, none |-> opt.none, text |-> opt.text, actions |-> acts]

\* lines 23-39.  e is the environment of the call: whether the openai library
\* was importable, the OPENAI_API_KEY variable, whether OpenAI(api_key=...)
\* raises, whether responses.create raises, and the response's output_text.
_call_openai(e) ==
    IF ~e.library THEN Outcome("none", None, <<>>)
    ELSE IF e.api_key \in {"unset", ""} THEN Outcome("none", None, <<>>)
    ELSE IF e.client = "raises" THEN Outcome("OpenAIError", None, <<>>)
    ELSE IF e.request = "raises" THEN Outcome("none", None, <<>>)
    ELSE IF e.output_text.none THEN Outcome("none", None, <<>>)
    ELSE Outcome("none", Some(Strip(e.output_text.text)), <<>>)

----------------------------------------------------------------------------
(* app/forecasting.py: ForecastResult.as_dict *)

\* round(x, 2) of a float
RoundTo2(x) == R(RoundHalfEven(RMul(x, RInt(100))), 100)

as_dict(f) ==
    [period                |-> f.period_label,
     forecast_revenue      |-> RoundTo2(f.revenue),
     forecast_revenue_low  |-> RoundTo2(f.revenue_low),
     forecast_revenue_high |-> RoundTo2(f.revenue_high),
     forecast_units        |-> f.units,
     forecast_units_low    |-> f.units_low,
     forecast_units_high   |-> f.units_high,
     method                |-> f.method]

----------------------------------------------------------------------------
(* app/insights.py: the fallback action cards *)

Card(title, body) == [title |-> title, body |-> body]

build_mock_additional_insights(product_name) ==
    <<Card(Lit("Cross-Sell Opportunity"),
           Lit("Merchandising teams can bundle ") \o Fig("arg", product_name)
             \o Lit(" with complementary accessories ...")),
      Card(Lit("Inventory Planning"),
           Lit("Supply planners should maintain roughly two weeks of forward cover ...")),
      Card(Lit("Marketing Insight"),
           Lit("Growth marketing can re-engage lapsed purchasers ..."))>>

----------------------------------------------------------------------------
(* app/llm.py: the narrative functions.  c is the call's arguments:         *)
(* product_name, question, metrics, forecast, segments, weekly_points,      *)
(* channel_mix, region_mix, fallback_actions.                               *)

_fallback_summary(c) ==
    LET top_segment == IF c.segments # <<>> THEN c.segments[1]
                       ELSE [segment |-> "Core Buyers", share |-> "n/a"]
    IN  Fig("arg", c.product_name) \o Lit(" generated $")
        \o Fig("metrics", "total_revenue") \o Lit(" in lifetime revenue, with $")
        \o Fig("metrics", "revenue_30d") \o Lit(" in the last 30 days (")
        \o Fig("metrics", "revenue_30d_growth") \o Lit("% vs prior period). ")
        \o Lit("Average selling price holds at $") \o Fig("metrics", "avg_unit_price")
        \o Lit(". Next month we expect roughly $") \o Fig("forecast", "forecast_revenue")
        \o Lit(" in revenue (") \o Fig("forecast", "forecast_units")
        \o Lit(" units). Focus engagement on the ")
        \o Fig("segment", top_segment.segment) \o Lit(" segment (")
        \o Fig("segment", top_segment.share) \o Lit(" of buyers) to maintain momentum.")

Raise(e) == Outcome(e, None, <<>>)

\* action.get("title", "Recommendation"), action.get("body", "")
ParsedAction(item) ==
    Card(IF item.title.none THEN Lit("Recommendation") ELSE item.title.text,
         IF item.body.none THEN <<>> ELSE item.body.text)

IsDict(item) == item.t = "dict"


\* a plausible slip: the list is not cut to three
FirstThreeUncut(actions) ==
    IF actions.t = "list" THEN actions.items ELSE <<>>

\* payload.get("actions", [])[:3], for the values that can be sliced: a list,
\* or a string (whose slice is a string of no dicts)
FirstThree(actions) ==
    IF actions.t = "list" THEN SubSeq(actions.items, 1, IF Len(actions.items) < 3
                                                      THEN Len(actions.items) ELSE 3)
    ELSE <<>>

ParsedActions(actions) ==
    LET dicts == SelectSeq(FirstThree(actions), IsDict)
    IN  [i \in 1..Len(dicts) |-> ParsedAction(dicts[i])]


\* a plausible slip: a text that is not JSON is dropped (except ...: pass)
InsightsFromJsonOnly(raw_text, summary0, actions0) ==
    IF ~IsJson(raw_text)
    THEN Outcome("none", Some(Strip(summary0)), actions0)
    ELSE LET payload == json_loads(raw_text)
             summary == IF payload.summary.t = "missing" THEN summary0
                        ELSE payload.summary.text
             parsed  == ParsedActions(payload.actions)
         IN  IF payload.t # "object" \/ payload.summary.t \notin {"missing", "string"}
                \/ payload.actions.t \in {"number", "null", "object"}
             THEN Raise("AttributeError")
             ELSE Outcome("none", Some(Strip(summary)),
                          IF parsed # <<>> THEN parsed ELSE actions0)

\* lines 93-107, given the service's truthy text
InsightsFrom(raw_text, summary0, actions0) ==
    IF ~IsJson(raw_text)
    THEN \* except json.JSONDecodeError: summary = raw_response
         Outcome("none", Some(Strip(raw_text)), actions0)
    ELSE LET payload == json_loads(raw_text)
         IN  IF payload.t # "object"
             THEN Raise("AttributeError")          \* payload.get
             ELSE IF payload.actions.t \in {"number", "null", "object"}
             THEN Raise("TypeError")               \* [:3] (KeyError on a dict from Python 3.12)
             ELSE IF payload.summary.t \notin {"missing", "string"}
             THEN Raise("AttributeError")          \* summary.strip()
             ELSE LET summary == IF payload.summary.t = "missing" THEN summary0
                                 ELSE payload.summary.text
                      parsed  == ParsedActions(payload.actions)
                  IN  Outcome("none", Some(Strip(summary)),
                              IF parsed # <<>> THEN parsed ELSE actions0)

summarise_insights(e, c) ==
    LET actions0     == c.fallback_actions
        summary0     == _fallback_summary(c)
        raw_response == _call_openai(e)
    IN  IF raw_response.raised # "none" THEN Raise(raw_response.raised)
        ELSE IF Truthy(raw_response)
        THEN InsightsFrom(raw_response.text, summary0, actions0)
        ELSE Outcome("none", Some(Strip(summary0)), actions0)

summarise_trend(e, c) ==
    IF c.weekly_points = <<>>
    THEN Outcome("none", Some(Lit("Sales momentum commentary unavailable.")), <<>>)
    ELSE LET commentary == _call_openai(e)
         IN  IF commentary.raised # "none" THEN Raise(commentary.raised)
             ELSE IF Truthy(commentary)
             THEN Outcome("none", Some(Strip(commentary.text)), <<>>)
             ELSE Outcome("none",
                     Some(Lit("Revenue over the past 30 days is tracking ")
                          \o Fig("metrics", "revenue_30d_growth")
                          \o Lit("% versus the prior month; momentum looks steady with minor weekly fluctuations.")),
                     <<>>)


\* a plausible slip: the question is matched as typed
LowerOmitted(word) == word

\* str.lower() of a word of the question
Lower(word) ==
    CASE word = "TREND" -> "trend"
      [] word = "Customers" -> "customers"
      [] OTHER -> word

\* keyword in word, for lower-case words
HasSubstring(word, keyword) ==
    \/ word = keyword
    \/ word = "customers" /\ keyword = "customer"

\* keyword in question_lower, question_lower = (question or "").lower()
Mentions(question, keyword) ==
    /\ ~question.none
    /\ \E i \in 1..Len(question.words) :
          HasSubstring(Lower(question.words[i]), keyword)

MentionsAny(question, keywords) == \E k \in keywords : Mentions(question, k)

last_week_delta(c) ==
    IF Len(c.weekly_points) < 2 THEN <<>>
    ELSE LET latest == c.weekly_points[Len(c.weekly_points)].revenue
             prev   == c.weekly_points[Len(c.weekly_points) - 1].revenue
         IN  Lit("Last week revenue was $") \o Fig("weeks", "latest") \o Lit(", ")
             \o Lit(IF latest - prev >= 0 THEN "up" ELSE "down") \o Space
             \o Fig("weeks", "pct") \o Lit("% versus the prior week.")

top_segment(c) ==
    IF c.segments = <<>> THEN <<>>
    ELSE Lit("The leading buyer cohort is ") \o Fig("segment", c.segments[1].segment)
         \o Lit(" at ") \o Fig("segment", c.segments[1].share) \o Lit(" share.")

top_channel(c) ==
    IF c.channel_mix = <<>> THEN <<>>
    ELSE Fig("channel", SortByRevenueDesc(c.channel_mix)[1].category)
         \o Lit(" contributes about ") \o Fig("channel", "share")
         \o Lit("% of revenue.")

base_summary(c) ==
    Fig("arg", c.product_name) \o Lit(" generated $") \o Fig("metrics", "revenue_30d")
    \o Lit(" in the last 30 days (") \o Fig("metrics", "revenue_30d_growth")
    \o Lit("% vs. the prior month).") \o Space

\* forecast_rev and forecast_units: both read from the dict and non-zero
HasForecastFigures(c) ==
    c.forecast.forecast_revenue.n # 0 /\ c.forecast.forecast_units # 0

\* a or b, for strings
OrElse(a, b) == IF a # <<>> THEN a ELSE b

_fallback_answer(c) ==
    IF MentionsAny(c.question, {"trend", "momentum", "trajectory"})
    THEN Strip(base_summary(c) \o last_week_delta(c)
               \o (IF HasForecastFigures(c)
                   THEN Space \o Lit("Next month is forecasted at $")
                        \o Fig("forecast", "forecast_revenue") \o Lit(" and ")
                        \o Fig("forecast", "forecast_units") \o Lit(" units.")
                   ELSE <<>>))
    ELSE IF MentionsAny(c.question, {"forecast", "next"})
    THEN base_summary(c)
         \o (IF HasForecastFigures(c)
             THEN Lit("We expect around $") \o Fig("forecast", "forecast_revenue")
                  \o Lit(" revenue and ") \o Fig("forecast", "forecast_units")
                  \o Lit(" units next month.")
             ELSE Lit("Forecast data is available once enough historical sales accumulate."))
    ELSE IF MentionsAny(c.question, {"segment", "customer"})
    THEN base_summary(c) \o top_segment(c)
    ELSE IF MentionsAny(c.question, {"channel", "region"})
    THEN base_summary(c) \o top_channel(c)
    ELSE IF MentionsAny(c.question, {"what can you do", "help"})
    THEN Lit("I can summarise performance, call out momentum shifts, highlight key buyer cohorts, and forecast next month's sales. Try asking about the revenue trend, top segments, or how the forecast looks.")
    ELSE Strip(base_summary(c) \o OrElse(top_segment(c), top_channel(c))
               \o (IF HasForecastFigures(c)
                   THEN Space \o Lit("Forecast: $")
                        \o Fig("forecast", "forecast_revenue") \o Lit(" / ")
                        \o Fig("forecast", "forecast_units") \o Lit(" units next month.")
                   ELSE <<>>))

answer_question(e, c) ==
    LET response == _call_openai(e)
    IN  IF response.raised # "none" THEN Raise(response.raised)
        ELSE IF Truthy(response)
        THEN Outcome("none", Some(Strip(response.text)), <<>>)
        ELSE Outcome("none", Some(_fallback_answer(c)), <<>>)

----------------------------------------------------------------------------
(* The state of a component that has not been called *)

NotCalled == [raised |-> "none", value |-> NoForecast]

NoDigest == [name \in {} |-> 0]

NoMetrics == [gross_margin_pct |-> 0]
NoWindows == [recent_revenue |-> 0, prev_revenue |-> 0,
              recent_units |-> 0, prev_units |-> 0]

IdleAggregation ==
    /\ tx = <<>>
    /\ time_series = <<>>
    /\ metrics = NoMetrics
    /\ windows = NoWindows
    /\ mix = <<>>

IdleForecast ==
    /\ monthly = <<>>
    /\ digest = NoDigest
    /\ forecast = NotCalled

NoEnv == [library |-> FALSE]
NoCall == [product_name |-> "none"]
NoReply == Outcome("none", None, <<>>)

IdleNarrative ==
    /\ env = NoEnv
    /\ call = NoCall
    /\ reply = NoReply

NoSession == [product |-> "none"]

IdleSession == session = NoSession

\* no database file, no adapter call
NoDatabase == [exists |-> FALSE, opened |-> 0, article_summary |-> <<>>,
               article_daily_metrics |-> <<>>, article_segments |-> <<>>]

NoLookup == [fn |-> "none"]

IdleAdapter == database = NoDatabase /\ lookup = NoLookup

NothingObserved == observed = <<>>

----------------------------------------------------------------------------
(* Forecast scenarios: one call of forecast_next_period on a monthly rollup, *)
(* or several calls of generate_mock_forecast.                              *)

\* <<units, revenue>> of one month
MonthValues == {<<0, 0>>, <<1, 3>>, <<6, 10>>}

FirstMonth == 2019 * 12 + 8

ProductNames == {"Jade denim", "Example Product"}

SeedChoices == {0, 349, 350, 24999, 25000, 524999}

\* n consecutive months with the given values, rows ascending or descending
MakeRollup(n, vals, descending) ==
    [i \in 1..n |->
        LET k == IF descending THEN n + 1 - i ELSE i
        IN  [month_start |-> FirstMonth + k - 1,
             units       |-> vals[k][1],
             revenue     |-> vals[k][2]]]

InitForecast ==
    /\ IdleSession
    /\ IdleAdapter
    /\ NothingObserved
    /\ pc \in {"forecast_next_period", "generate_mock_forecast"}
    /\ IdleAggregation
    /\ IdleNarrative
    /\ digest = NoDigest
    /\ forecast = NotCalled
    /\ IF pc = "forecast_next_period"
       THEN \E n \in 0..MaxMonths : \E vals \in [1..n -> MonthValues] :
                \E descending \in BOOLEAN :
                    monthly = MakeRollup(n, vals, descending)
       ELSE monthly = <<>>

ForecastNextPeriod ==
    /\ pc = "forecast_next_period"
    /\ forecast' = forecast_next_period(monthly)
    /\ pc' = "done"
    /\ UNCHANGED <<adapterVars, observed, session, monthly, digest, aggVars, llmVars>>

GenerateMockForecast ==
    /\ pc = "generate_mock_forecast"
    /\ \E name \in ProductNames : \E seed \in SeedChoices :
          /\ name \in DOMAIN digest => seed = digest[name]
          /\ digest' = [x \in DOMAIN digest \cup {name} |->
                            IF x = name THEN seed ELSE digest[x]]
          /\ forecast' = Returned(generate_mock_forecast(digest', name))
    /\ UNCHANGED <<adapterVars, observed, session, pc, monthly, aggVars, llmVars>>

NextForecast == ForecastNextPeriod \/ GenerateMockForecast

SpecForecast == InitForecast /\ [][NextForecast]_vars

----------------------------------------------------------------------------
(* Trend scenarios: one call of forecast_next_period on three months of     *)
(* strictly increasing revenue                                              *)

RevenueLevels == {1000, 1050, 1100, 1150, 1200, 1250, 1300}

UnitLevels == {0, 10, 11}

InitTrend ==
    /\ pc = "forecast_next_period"
    /\ IdleSession
    /\ IdleAdapter
    /\ NothingObserved
    /\ IdleAggregation
    /\ IdleNarrative
    /\ digest = NoDigest
    /\ forecast = NotCalled
    /\ \E r \in [1..3 -> RevenueLevels] : \E u \in [1..3 -> UnitLevels] :
          \E descending \in BOOLEAN :
              /\ r[1] < r[2] /\ r[2] < r[3]
              /\ monthly = MakeRollup(3, [i \in 1..3 |-> <<u[i], r[i]>>], descending)

NextTrend == ForecastNextPeriod

SpecTrend == InitTrend /\ [][NextTrend]_vars

----------------------------------------------------------------------------
(* Aggregation scenarios: one call of compute_time_series or of             *)
(* compute_summary_metrics on a non-empty transaction frame ordered by date *)

\* transaction dates: around a week's turn (5 = Saturday, 6 = Sunday,
\* 7 = Monday), and 30 and 60 days before the last ones
DateChoices == {5, 6, 7, 36, 37, 66, 67}

\* <<units, gross_revenue, unit_price>> of one row
AmountChoices == {<<0, 0, 0>>, <<1, 1005, 1005>>, <<2, 2990, 1495>>}

MakeTx(n, dates, amounts) ==
    [i \in 1..n |->
        [transaction_date |-> dates[i],
         channel          |-> "Online",
         region           |-> "Europe",
         units            |-> amounts[i][1],
         gross_revenue    |-> amounts[i][2],
         unit_price       |-> amounts[i][3]]]

InitAggregate ==
    /\ IdleSession
    /\ IdleAdapter
    /\ NothingObserved
    /\ pc \in {"compute_time_series", "compute_summary_metrics"}
    /\ IdleForecast
    /\ IdleNarrative
    /\ time_series = <<>>
    /\ metrics = NoMetrics
    /\ windows = NoWindows
    /\ mix = <<>>
    /\ \E n \in 1..MaxTx : \E dates \in [1..n -> DateChoices] :
          /\ \A i \in 1..(n - 1) : dates[i] <= dates[i + 1]
          /\ \E amounts \in [1..n -> AmountChoices] :
                tx = MakeTx(n, dates, amounts)

ComputeTimeSeries ==
    /\ pc = "compute_time_series"
    /\ time_series' = compute_time_series(tx)
    /\ pc' = "done"
    /\ UNCHANGED <<adapterVars, observed, session, tx, metrics, windows, mix, forecastVars, llmVars>>

ComputeSummaryMetrics ==
    /\ pc = "compute_summary_metrics"
    /\ metrics' = compute_summary_metrics(tx)
    /\ windows' = WindowSums(tx)
    /\ pc' = "done"
    /\ UNCHANGED <<adapterVars, observed, session, tx, time_series, mix, forecastVars, llmVars>>

NextAggregate == ComputeTimeSeries \/ ComputeSummaryMetrics

SpecAggregate == InitAggregate /\ [][NextAggregate]_vars

----------------------------------------------------------------------------
(* Mix scenarios: one call of channel_mix or region_mix on one day's rows,  *)
(* at most one row per region                                              *)

\* REGIONS of scripts/load_hm_data.py, in its order
REGIONS == <<"US-West", "US-East", "US-South", "US-Midwest", "Canada", "Europe">>

\* <<channel, gross_revenue>> of a region's row; "absent": the region has none
MixCells == {<<"absent", 0>>, <<"Online", 0>>, <<"Online", 1000>>,
             <<"Retail Store", 1000>>, <<"Other", 3000>>}

MakeMixTx(cells) ==
    LET present == SelectSeq(REGIONS, LAMBDA r : cells[r][1] # "absent")
    IN  [i \in 1..Len(present) |->
            [transaction_date |-> 6,
             channel          |-> cells[present[i]][1],
             region           |-> present[i],
             units            |-> 1,
             gross_revenue    |-> cells[present[i]][2],
             unit_price       |-> cells[present[i]][2]]]

InitMix ==
    /\ IdleSession
    /\ IdleAdapter
    /\ NothingObserved
    /\ pc \in {"channel_mix", "region_mix"}
    /\ IdleForecast
    /\ IdleNarrative
    /\ time_series = <<>>
    /\ metrics = NoMetrics
    /\ windows = NoWindows
    /\ mix = <<>>
    /\ \E cells \in [{REGIONS[i] : i \in 1..Len(REGIONS)} -> MixCells] :
          /\ \E r \in DOMAIN cells : cells[r][1] # "absent"
          /\ tx = MakeMixTx(cells)

ChannelMix ==
    /\ pc = "channel_mix"
    /\ mix' = channel_mix(tx)
    /\ pc' = "done"
    /\ UNCHANGED <<adapterVars, observed, session, tx, time_series, metrics, windows, forecastVars, llmVars>>

RegionMix ==
    /\ pc = "region_mix"
    /\ mix' = region_mix(tx)
    /\ pc' = "done"
    /\ UNCHANGED <<adapterVars, observed, session, tx, time_series, metrics, windows, forecastVars, llmVars>>

NextMix == ChannelMix \/ RegionMix

SpecMix == InitMix /\ [][NextMix]_vars

----------------------------------------------------------------------------
(* Narrative scenarios: one call of _call_openai, summarise_insights,       *)
(* summarise_trend or answer_question, in an environment where the service  *)
(* call fails at some step or returns some text                             *)

Str(text) == [t |-> "string", text |-> text]
NotStr(t) == [t |-> t, text |-> <<>>]

SummaryValues ==
    {NotStr("missing"), NotStr("number"), NotStr("null"),
     Str(Lit("Sales are up.")), Str(Space \o Lit("Sales are up.") \o Space)}

Key(text) == Some(text)
NoKey == None

DictItem(title, body) == [t |-> "dict", title |-> title, body |-> body]
NonDictItem == [t |-> "string", title |-> NoKey, body |-> NoKey]

FullItem == DictItem(Key(Lit("Restock")), Key(Lit("Order two weeks of cover.")))
BareItem == DictItem(NoKey, NoKey)

List(items) == [t |-> "list", items |-> items]
NotList(t) == [t |-> t, items |-> <<>>]

ActionsValues ==
    {NotList("missing"), NotList("string"), NotList("number"), NotList("null"),
     NotList("object"),
     List(<<>>), List(<<FullItem>>), List(<<NonDictItem>>),
     List(<<NonDictItem, BareItem, FullItem, FullItem>>),
     List(<<FullItem, BareItem, FullItem, BareItem>>)}

Object(summary, actions) == [t |-> "object", summary |-> summary, actions |-> actions]
NonObject(t) == [t |-> t, summary |-> NotStr("missing"), actions |-> NotList("missing")]

JsonDocs ==
    {Object(sm, ac) : sm \in SummaryValues, ac \in ActionsValues}
    \cup {NonObject(t) : t \in {"array", "number", "string", "null"}}

\* what response.output_text can hold
ServiceTexts ==
    {JsonText(d) : d \in JsonDocs}
    \cup {Space \o JsonText(Object(Str(Lit("Sales are up.")), List(<<FullItem>>))) \o Space}
    \cup {<<>>, Space, Lit("Demand is steady."),
          Space \o Lit("Demand is steady.") \o Space,
          Lit("Demand") \o Space \o Lit("is steady.")}

WorkingEnv(output_text) ==
    [library |-> TRUE, api_key |-> "sk-test", client |-> "ok",
     request |-> "returns", output_text |-> output_text]

\* the environments: the call fails at exactly one step (what lies behind the
\* failing step is never read), or the response arrives
Environments ==
    {[WorkingEnv(None) EXCEPT !.library = FALSE],
     [WorkingEnv(None) EXCEPT !.api_key = "unset"],
     [WorkingEnv(None) EXCEPT !.api_key = ""],
     [WorkingEnv(None) EXCEPT !.client = "raises"],
     [WorkingEnv(None) EXCEPT !.request = "raises"],
     WorkingEnv(None)}
    \cup {WorkingEnv(Some(text)) : text \in ServiceTexts}

Vocabulary == {"trend", "TREND", "momentum", "forecast", "next", "segment",
               "Customers", "channel", "region", "what can you do", "help", "hello"}

Questions ==
    {[none |-> TRUE, words |-> <<>>], [none |-> FALSE, words |-> <<>>]}
    \cup {[none |-> FALSE, words |-> <<w>>] : w \in Vocabulary \cup {"trajectory"}}
    \cup {[none |-> FALSE, words |-> <<w1, w2>>] : w1 \in Vocabulary, w2 \in Vocabulary}

SampleTx ==
    MakeTx(3, <<7, 37, 67>>, <<<<1, 1005, 1005>>, <<2, 2990, 1495>>, <<2, 2990, 1495>>>>)

\* generate_mock_segments for a product whose digest is 349
SampleSegments ==
    <<[segment |-> "Digital Loyalists", share |-> "28%", traits |-> "Frequent shoppers"],
      [segment |-> "Store Stylists", share |-> "19%", traits |-> "Prefer in-store styling"],
      [segment |-> "Seasonal Gifters", share |-> "53%", traits |-> "Buy around key holidays"]>>

SampleForecast == as_dict(generate_mock_forecast([n \in {"Jade denim"} |-> 349], "Jade denim"))

ZeroForecast ==
    as_dict(ForecastOf(<<[month_start |-> FirstMonth, units |-> 0, revenue |-> 0]>>))

\* the numeric context of a call: all of it, none of it, or some of it
Contexts ==
    {[forecast |-> SampleForecast, segments |-> SampleSegments,
      weekly_points |-> compute_time_series(SampleTx),
      channel_mix |-> channel_mix(SampleTx)],
     [forecast |-> ZeroForecast, segments |-> <<>>,
      weekly_points |-> <<>>, channel_mix |-> <<>>],
     [forecast |-> SampleForecast, segments |-> <<>>,
      weekly_points |-> SubSeq(compute_time_series(SampleTx), 1, 1),
      channel_mix |-> channel_mix(SampleTx)]}

MakeCall(ctx, question) ==
    [product_name     |-> "Jade denim",
     question         |-> question,
     metrics          |-> compute_summary_metrics(SampleTx),
     forecast         |-> ctx.forecast,
     segments         |-> ctx.segments,
     weekly_points    |-> ctx.weekly_points,
     channel_mix      |-> ctx.channel_mix,
     region_mix       |-> region_mix(SampleTx),
     fallback_actions |-> build_mock_additional_insights("Jade denim")]

NoQuestion == [none |-> TRUE, words |-> <<>>]

InitNarrative ==
    /\ IdleSession
    /\ IdleAdapter
    /\ NothingObserved
    /\ pc \in {"_call_openai", "summarise_insights", "summarise_trend", "answer_question"}
    /\ IdleForecast
    /\ IdleAggregation
    /\ reply = NoReply
    /\ env \in Environments
    /\ \E ctx \in Contexts :
          \E q \in (IF pc = "answer_question" THEN Questions ELSE {NoQuestion}) :
              call = MakeCall(ctx, q)

CallOpenAI ==
    /\ pc = "_call_openai"
    /\ reply' = _call_openai(env)
    /\ pc' = "returned_call"
    /\ UNCHANGED <<adapterVars, observed, session, env, call, forecastVars, aggVars>>

SummariseInsights ==
    /\ pc = "summarise_insights"
    /\ reply' = summarise_insights(env, call)
    /\ pc' = "returned_insights"
    /\ UNCHANGED <<adapterVars, observed, session, env, call, forecastVars, aggVars>>

SummariseTrend ==
    /\ pc = "summarise_trend"
    /\ reply' = summarise_trend(env, call)
    /\ pc' = "returned_trend"
    /\ UNCHANGED <<adapterVars, observed, session, env, call, forecastVars, aggVars>>

AnswerQuestion ==
    /\ pc = "answer_question"
    /\ reply' = answer_question(env, call)
    /\ pc' = "returned_answer"
    /\ UNCHANGED <<adapterVars, observed, session, env, call, forecastVars, aggVars>>

NextNarrative == CallOpenAI \/ SummariseInsights \/ SummariseTrend \/ AnswerQuestion

SpecNarrative == InitNarrative /\ [][NextNarrative]_vars

----------------------------------------------------------------------------
(* Request scenarios: one run of main (app/streamlit_app.py) for the        *)
(* product selected in the sidebar, against a store that may hold no such   *)
(* product or no transactions of it, with or without a prompt typed into    *)
(* the chat input                                                           *)

\* a plausible slip: the guard is left out
empty_unchecked(transactions) == FALSE

\* transactions.empty
empty(transactions) == Len(transactions) = 0

\* product is None
is_None(product) == product = "None"

RequestRows ==
    {<<>>, SampleTx,
     MakeTx(1, <<6>>, <<<<1, 1005, 1005>>>>),
     MakeTx(2, <<5, 7>>, <<<<0, 0, 0>>, <<2, 2990, 1495>>>>)}

RequestSeeds == {0, 349, 24999}

RequestEnvironments ==
    {e \in Environments :
        \/ e.output_text.none
        \/ e.output_text.text \in
              {<<>>, Lit("Demand is steady."), JsonText(NonObject("array")),
               JsonText(Object(Str(Lit("Sales are up.")), List(<<FullItem>>))),
               JsonText(Object(NotStr("missing"), List(<<>>)))}}

RequestPrompts ==
    {NoQuestion, [none |-> FALSE, words |-> <<>>],
     [none |-> FALSE, words |-> <<"help">>],
     [none |-> FALSE, words |-> <<"segment", "TREND">>]}

\* a call made by main: the function and the number of rows handed to it
Invoked(fn, rows) == [fn |-> fn, rows |-> rows]

Message(role, content) == [role |-> role, content |-> content]

\* the run before its first statement; row is what article_summary holds for
\* the selected id ("None" when it holds nothing), rows what
\* article_daily_metrics holds for it
NewSession(row, rows, user_prompt) ==
    [store             |-> [product |-> row, rows |-> rows],
     user_prompt       |-> user_prompt,
     product           |-> "unset",
     page              |-> <<"title">>,
     invoked           |-> <<>>,
     trend_commentary  |-> None,
     narrative         |-> None,
     recommended_cards |-> <<>>,
     chat_history      |-> <<>>]

InitRequest ==
    /\ pc = "get_product_details"
    /\ IdleAdapter
    /\ NothingObserved
    /\ IdleAggregation
    /\ monthly = <<>>
    /\ forecast = NotCalled
    /\ call = NoCall
    /\ reply = NoReply
    /\ env \in RequestEnvironments
    /\ \E row \in ProductNames \cup {"None"} : \E rows \in RequestRows :
          \E user_prompt \in RequestPrompts : \E seed \in RequestSeeds :
              /\ session = NewSession(row, rows, user_prompt)
              /\ digest = [name \in ProductNames |-> seed]

\* lines 175-179
GetProductDetails ==
    /\ pc = "get_product_details"
    /\ LET product == session.store.product
       IN  IF is_None(product)
           THEN /\ session' = [session EXCEPT
                      !.product = product,
                      !.page = @ \o <<"error: Unable to load product details.">>]
                /\ pc' = "stopped"
           ELSE /\ session' = [session EXCEPT !.product = product]
                /\ pc' = "filter_transactions_by_product"
    /\ UNCHANGED <<adapterVars, observed, forecastVars, aggVars, llmVars>>

\* lines 181-184
FilterTransactions ==
    /\ pc = "filter_transactions_by_product"
    /\ tx' = session.store.rows
    /\ IF empty(tx')
       THEN /\ session' = [session EXCEPT !.page = @ \o
                  <<"warning: No transactions available for this product in the sample data.">>]
            /\ pc' = "stopped"
       ELSE /\ pc' = "compute"
            /\ UNCHANGED session
    /\ UNCHANGED <<adapterVars, observed, time_series, metrics, windows, mix, forecastVars, llmVars>>

\* lines 186-195
ComputeAnalytics ==
    /\ pc = "compute"
    /\ metrics' = compute_summary_metrics(tx)
    /\ windows' = WindowSums(tx)
    /\ time_series' = compute_time_series(tx)
    /\ forecast' = Returned(generate_mock_forecast(digest, session.product))
    /\ mix' = channel_mix(tx)
    /\ call' = [product_name     |-> session.product,
                question         |-> NoQuestion,
                metrics          |-> metrics',
                forecast         |-> as_dict(forecast'.value),
                segments         |-> generate_mock_segments(digest, session.product),
                weekly_points    |-> time_series',
                channel_mix      |-> mix',
                region_mix       |-> region_mix(tx),
                fallback_actions |-> build_mock_additional_insights(session.product)]
    /\ session' = [session EXCEPT !.invoked = @ \o
          <<Invoked("generate_mock_segments", 0),
            Invoked("compute_summary_metrics", Len(tx)),
            Invoked("compute_time_series", Len(tx)),
            Invoked("generate_mock_forecast", 0),
            Invoked("channel_mix", Len(tx)),
            Invoked("region_mix", Len(tx)),
            Invoked("build_mock_additional_insights", 0)>>]
    /\ pc' = "narrate"
    /\ UNCHANGED <<adapterVars, observed, tx, monthly, digest, env, reply>>

\* lines 196-202
Narrate ==
    /\ pc = "narrate"
    /\ LET trend_commentary == summarise_trend(env, call)
           insight_bundle   == summarise_insights(env, call)
       IN  IF trend_commentary.raised # "none"
           THEN /\ reply' = trend_commentary
                /\ session' = [session EXCEPT
                      !.invoked = @ \o <<Invoked("summarise_trend", 0)>>,
                      !.page = @ \o <<"exception">>]
                /\ pc' = "raised"
           ELSE IF insight_bundle.raised # "none"
           THEN /\ reply' = insight_bundle
                /\ session' = [session EXCEPT
                      !.invoked = @ \o <<Invoked("summarise_trend", 0),
                                         Invoked("summarise_insights", 0)>>,
                      !.trend_commentary = Some(trend_commentary.text),
                      !.page = @ \o <<"exception">>]
                /\ pc' = "raised"
           ELSE /\ reply' = insight_bundle
                /\ session' = [session EXCEPT
                      !.invoked = @ \o <<Invoked("summarise_trend", 0),
                                         Invoked("summarise_insights", 0)>>,
                      !.trend_commentary = Some(trend_commentary.text),
                      !.narrative = Some(insight_bundle.text),
                      !.recommended_cards =
                          IF insight_bundle.actions # <<>> THEN insight_bundle.actions
                          ELSE call.fallback_actions]
                /\ pc' = "render"
    /\ UNCHANGED <<adapterVars, observed, forecastVars, aggVars, env, call>>

\* lines 204-243
Render ==
    /\ pc = "render"
    /\ session' = [session EXCEPT !.page = @ \o
          <<"product", "kpis", "sales chart", "trend commentary", "mix",
            "segments", "forecast", "narrative", "recommended actions">>]
    /\ pc' = "chat"
    /\ UNCHANGED <<adapterVars, observed, forecastVars, aggVars, llmVars>>

\* lines 245-283
Chat ==
    /\ pc = "chat"
    /\ LET user_prompt == session.user_prompt
           asked       == [call EXCEPT !.question = user_prompt]
           assistant_reply == answer_question(env, asked)
       IN  IF user_prompt.none \/ user_prompt.words = <<>>
           THEN /\ session' = [session EXCEPT !.page = @ \o <<"chat input">>]
                /\ pc' = "done"
                /\ UNCHANGED <<adapterVars, observed, call, reply>>
           ELSE /\ call' = asked
                /\ reply' = assistant_reply
                /\ IF assistant_reply.raised # "none"
                   THEN /\ session' = [session EXCEPT
                              !.invoked = @ \o <<Invoked("answer_question", 0)>>,
                              !.chat_history = @ \o <<Message("user", user_prompt.words)>>,
                              !.page = @ \o <<"chat input", "user message", "exception">>]
                        /\ pc' = "raised"
                   ELSE /\ session' = [session EXCEPT
                              !.invoked = @ \o <<Invoked("answer_question", 0)>>,
                              !.chat_history = @ \o
                                  <<Message("user", user_prompt.words),
                                    Message("assistant", assistant_reply.text)>>,
                              !.page = @ \o <<"chat input", "user message",
                                             "assistant message">>]
                        /\ pc' = "done"
    /\ UNCHANGED <<adapterVars, observed, forecastVars, aggVars, env>>

NextRequest ==
    GetProductDetails \/ FilterTransactions \/ ComputeAnalytics \/ Narrate
    \/ Render \/ Chat

SpecRequest == InitRequest /\ [][NextRequest]_vars

----------------------------------------------------------------------------
(* Properties of the forecast engine *)

HasForecast == forecast.raised = "none" /\ forecast.value.method # "none"

FromRollup == pc = "done" /\ forecast.raised = "none"

\* the rollup's values of one column in month order, read off the month numbers
InMonthOrder(f) ==
    [i \in 1..Len(monthly) |->
        (CHOOSE r \in {monthly[j] : j \in 1..Len(monthly)} :
            r.month_start = FirstMonth + i - 1)[f]]

\* C1: every ForecastResult, from forecast_next_period on any non-empty rollup
\* or from generate_mock_forecast on any product name, has
\* revenue_low <= revenue <= revenue_high and 0 <= units_low <= units <= units_high.
C1_BandsOrdered ==
    /\ (pc = "done" /\ monthly # <<>>) => HasForecast
    /\ HasForecast =>
          LET f == forecast.value
          IN  /\ RLe(f.revenue_low, f.revenue)
              /\ RLe(f.revenue, f.revenue_high)
              /\ 0 <= f.units_low
              /\ f.units_low <= f.units
              /\ f.units <= f.units_high

\* a forecast whose trend extrapolation was negative (floored to zero) and one
\* whose lower band was clamped: a steeply falling rollup
C1_Witness ==
    /\ FromRollup
    /\ Len(monthly) >= 2
    /\ forecast.value.units = 0
    /\ forecast.value.units_low = 0
    /\ forecast.value.revenue.n = 0
    /\ forecast.value.revenue_high.n > 0

\* the least-squares line through (0, v1) .. (n-1, vn) evaluated at n, in
\* closed form: mean + 3 * sum((2i - n + 1) * v_i) / (n * (n - 1))
LeastSquaresAtNext(v) ==
    LET n == Len(v)
        w == SumSeq([i \in 1..n |-> (2 * (i - 1) - n + 1) * v[i]])
    IN  IF n = 1 THEN RInt(v[1])
        ELSE RAdd(R(SumSeq(v), n), R(3 * w, n * (n - 1)))

MeanOfLast3(v) ==
    LET k == IF Len(v) < 3 THEN Len(v) ELSE 3
    IN  R(SumSeq([i \in 1..k |-> v[Len(v) - k + i]]), k)

ClaimedPoint(v) ==
    LET blend == RAdd(RMul(R(65, 100), LeastSquaresAtNext(v)),
                      RMul(R(35, 100), MeanOfLast3(v)))
    IN  IF blend.n < 0 THEN RInt(0) ELSE blend

\* C4: the point forecast is max(0, 0.65 * T + 0.35 * M), T the least-squares
\* line through (0..n-1, value) at index n (the single value when n = 1), M the
\* mean of the last 3 values (of all when n < 3); units are that value rounded;
\* a single-month rollup forecasts exactly that month.
C4_PointForecast ==
    FromRollup =>
        /\ forecast.value.revenue = ClaimedPoint(InMonthOrder("revenue"))
        /\ forecast.value.units = RoundHalfEven(ClaimedPoint(InMonthOrder("units")))
        /\ Len(monthly) = 1 =>
              /\ forecast.value.revenue = RInt(monthly[1].revenue)
              /\ forecast.value.units = monthly[1].units

\* a rollup of more than three months given in descending order, with a
\* positive forecast: the sort, the trend and the 3-month mean all matter
C4_Witness ==
    /\ FromRollup
    /\ Len(monthly) >= 4
    /\ monthly[1].month_start > monthly[2].month_start
    /\ monthly[1].revenue # monthly[Len(monthly)].revenue
    /\ forecast.value.revenue.n > 0

\* the standard deviation of the last min(n, 6) values, from the variance
\* (m * sum(v^2) - sum(v)^2) / m^2, rounded down like RSqrt
ClaimedStd(v) ==
    LET w  == LastK(v, 6)
        m  == Len(w)
        s2 == m * SumSeq([i \in 1..m |-> w[i] * w[i]]) - SumSeq(w) * SumSeq(w)
    IN  R(ISqrt((s2 * SqrtPrecision * SqrtPrecision) \div (m * m)), SqrtPrecision)

ClaimedHalfWidth(v) ==
    LET tenth == RMul(ClaimedPoint(v), R(1, 10))
    IN  IF Len(v) >= 2
        THEN (IF RLe(tenth, ClaimedStd(v)) THEN ClaimedStd(v) ELSE tenth)
        ELSE (IF tenth.n = 0 THEN RInt(1) ELSE tenth)

ClaimedLow(v) ==
    LET low == RSub(ClaimedPoint(v), ClaimedHalfWidth(v))
    IN  IF low.n < 0 THEN RInt(0) ELSE low

\* C5: the half-width is max(s, 0.1 * point) with s the standard deviation of
\* the last min(n, 6) values when n >= 2, and 0.1 * point (1.0 when that is
\* zero) when n = 1; low = max(point - halfWidth, 0), high = point + halfWidth
\* (for units, both rounded to the nearest integer).
C5_ConfidenceBand ==
    FromRollup =>
        LET rev == InMonthOrder("revenue")
            uni == InMonthOrder("units")
            f   == forecast.value
        IN  /\ f.revenue_low = ClaimedLow(rev)
            /\ f.revenue_high = RAdd(ClaimedPoint(rev), ClaimedHalfWidth(rev))
            /\ f.units_low = IntMax(RoundHalfEven(RSub(ClaimedPoint(uni), ClaimedHalfWidth(uni))), 0)
            /\ f.units_high = RoundHalfEven(RAdd(ClaimedPoint(uni), ClaimedHalfWidth(uni)))

\* more than six months whose first month differs from the rest, and a band
\* set by the floor of a tenth of the prediction rather than by the deviation
C5_Witness ==
    /\ FromRollup
    /\ Len(monthly) > 6
    /\ InMonthOrder("revenue")[1] # InMonthOrder("revenue")[2]
    /\ RLt(ClaimedStd(InMonthOrder("revenue")),
           RMul(forecast.value.revenue, R(1, 10)))
    /\ forecast.value.revenue_high =
           RMul(forecast.value.revenue, R(11, 10))

\* C6: forecast_next_period on an empty rollup fails with ValueError and
\* returns no ForecastResult; it fails for no non-empty rollup.
C6_EmptyRollupRaises ==
    pc = "done" =>
        /\ forecast.raised = "ValueError" <=> monthly = <<>>
        /\ forecast.raised \in {"ValueError", "none"}
        /\ forecast.raised = "ValueError" => forecast.value = NoForecast
        /\ forecast.raised = "none" => forecast.value.method = "weighted_trend"

C6_Witness ==
    pc = "done" /\ monthly = <<>> /\ forecast.raised = "ValueError"

----------------------------------------------------------------------------
(* Properties of the aggregation engine *)

SeriesComputed == pc = "done" /\ time_series # <<>>

MetricsComputed == pc = "done" /\ metrics # NoMetrics

\* the buckets (by index) whose week [period_start, period_start + 7) holds a day
BucketsOf(day) ==
    {k \in 1..Len(time_series) :
        /\ time_series[k].period_start <= day
        /\ day < time_series[k].period_start + 7}

\* the transactions (by index) dated in bucket k
MembersOf(k) == {i \in Indices(tx) : k \in BucketsOf(tx[i].transaction_date)}

\* C2: compute_time_series places each transaction in exactly one bucket; the
\* bucket units sum to the input units and the bucket revenues to the input
\* revenue within 0.01 (10 mills) per bucket.
C2_BucketsPartition ==
    SeriesComputed =>
        /\ \A i \in Indices(tx) :
              Cardinality(BucketsOf(tx[i].transaction_date)) = 1
        /\ \A k \in 1..Len(time_series) :
              /\ time_series[k].units = SumOver(tx, MembersOf(k), "units")
              /\ Abs(time_series[k].revenue
                     - SumOver(tx, MembersOf(k), "gross_revenue")) <= 10
        /\ SumSeq(Column(time_series, "units")) = SumOver(tx, Indices(tx), "units")
        /\ Abs(SumSeq(Column(time_series, "revenue"))
               - SumOver(tx, Indices(tx), "gross_revenue")) <= 10 * Len(time_series)

\* three transactions in two weeks with an empty week in between, the first on
\* the bucket's own start day, and rounding that changes the total
C2_Witness ==
    /\ SeriesComputed
    /\ Len(tx) = 3
    /\ tx[1].transaction_date = time_series[1].period_start
    /\ \E k \in 2..(Len(time_series) - 1) : MembersOf(k) = {}
    /\ SumSeq(Column(time_series, "revenue")) # SumOver(tx, Indices(tx), "gross_revenue")

LastDate == MaxOf({tx[i].transaction_date : i \in Indices(tx)})

\* the transactions (by index) that lie at least lo and less than hi days
\* before the latest transaction
AgedBetween(lo, hi) ==
    {i \in Indices(tx) : /\ lo <= LastDate - tx[i].transaction_date
                         /\ LastDate - tx[i].transaction_date < hi}

\* C7: revenue_30d and units_30d sum exactly the transactions dated in
\* (maxDate - 30, maxDate], the prior-period sums exactly those dated in
\* (maxDate - 60, maxDate - 30], maxDate the latest transaction date; no
\* transaction is in both, and one dated maxDate - 30 is in the prior window.
C7_ThirtyDayWindows ==
    MetricsComputed =>
        /\ windows.recent_revenue = SumOver(tx, AgedBetween(0, 30), "gross_revenue")
        /\ windows.recent_units = SumOver(tx, AgedBetween(0, 30), "units")
        /\ windows.prev_revenue = SumOver(tx, AgedBetween(30, 60), "gross_revenue")
        /\ windows.prev_units = SumOver(tx, AgedBetween(30, 60), "units")
        /\ metrics.revenue_30d = Round2(RInt(windows.recent_revenue))
        /\ metrics.units_30d = windows.recent_units
        /\ windows.recent_units + windows.prev_units
              <= SumOver(tx, Indices(tx), "units")

\* a sale exactly 30 days and one exactly 60 days before the latest one
C7_Witness ==
    /\ MetricsComputed
    /\ \E i \in Indices(tx) :
          LastDate - tx[i].transaction_date = 30 /\ tx[i].units > 0
    /\ \E i \in Indices(tx) :
          LastDate - tx[i].transaction_date = 60 /\ tx[i].units > 0
    /\ windows.prev_units > 0

\* g is a number of two decimals within 0.005 of the percentage change
IsGrowthOf(g, current, previous) ==
    LET exact == R((current - previous) * 100, previous)
    IN  /\ 100 % g.d = 0
        /\ RLe(RSub(g, exact), R(1, 200))
        /\ RLe(RSub(exact, g), R(1, 200))

\* C8: the growth percentage is 0 whenever the prior-period value is 0, and
\* round((current - previous) / previous * 100, 2) otherwise; both growth
\* figures are 0 when the prior 30-day window contains no sales.
C8_Growth ==
    MetricsComputed =>
        /\ IF windows.prev_revenue = 0
           THEN metrics.revenue_30d_growth = RInt(0)
           ELSE IsGrowthOf(metrics.revenue_30d_growth,
                           windows.recent_revenue, windows.prev_revenue)
        /\ IF windows.prev_units = 0
           THEN metrics.units_30d_growth = RInt(0)
           ELSE IsGrowthOf(metrics.units_30d_growth,
                           windows.recent_units, windows.prev_units)
        /\ AgedBetween(30, 60) = {} =>
              /\ metrics.revenue_30d_growth = RInt(0)
              /\ metrics.units_30d_growth = RInt(0)

\* sales in the last 30 days and older than 60 days, none in the prior window
C8_Witness ==
    /\ MetricsComputed
    /\ AgedBetween(30, 60) = {}
    /\ \E i \in Indices(tx) : LastDate - tx[i].transaction_date >= 60
    /\ windows.recent_revenue > 0
    /\ metrics.revenue_30d_growth = RInt(0)

MixComputed == pc = "done" /\ mix # <<>>

\* the shares of the mix added up, in hundredths of a percent
ShareSum == SumSeq([k \in 1..Len(mix) |-> mix[k].share.n * (100 \div mix[k].share.d)])

SomeRevenue == \E i \in Indices(tx) : tx[i].gross_revenue > 0

\* C3, as claimed: the shares sum to 100 within 0.01 whenever a category has
\* positive revenue, for any number of categories, and to 0 when all are zero.
C3_SharesSumTo100 ==
    MixComputed =>
        IF SomeRevenue THEN Abs(ShareSum - 10000) <= 1 ELSE ShareSum = 0

\* C3, amended: each share is rounded on its own, so the sum is within 0.005
\* per category of 100 (within 0.01 for up to three categories); it is 0
\* when every revenue is zero.
C3_SharesSumWithinRounding ==
    MixComputed =>
        /\ IF SomeRevenue
           THEN 2 * Abs(ShareSum - 10000) <= Len(mix)
           ELSE ShareSum = 0
        /\ (SomeRevenue /\ Len(mix) <= 3) => Abs(ShareSum - 10000) <= 1

\* three categories of equal revenue: 33.33 three times
C3_Witness ==
    /\ MixComputed
    /\ Len(mix) = 3
    /\ \A k \in 1..3 : mix[k].revenue = 1000
    /\ ShareSum = 9999

----------------------------------------------------------------------------
(* Properties of the narrative layer *)

InsightsReturned == pc = "returned_insights"
NarrativeReturned == pc \in {"returned_insights", "returned_trend", "returned_answer"}

\* the service call itself came back to the narrative function, with a text
\* or with None
ServiceCallReturned == _call_openai(env).raised = "none"

\* C9: summarise_insights, summarise_trend and answer_question are total over
\* the outcomes of the service call: whatever the call hands back (None, an
\* empty text, a text that is not JSON, JSON that is not an object, an object
\* whose 'summary' is missing or not a string or whose 'actions' is missing
\* or not a list), the function returns a text and raises nothing.
C9_NarrativeTotal ==
    (NarrativeReturned /\ ServiceCallReturned)
        => (reply.raised = "none" /\ ~reply.none)

CallReturned == pc = "returned_call"

\* the step of the service call that fails in this environment
FailingStep ==
    IF ~env.library THEN "library"
    ELSE IF env.api_key \in {"unset", ""} THEN "credential"
    ELSE IF env.client = "raises" THEN "client"
    ELSE IF env.request = "raises" THEN "request"
    ELSE IF env.output_text.none THEN "no text"
    ELSE "none"

\* C10: _call_openai never raises, and yields None when the library is not
\* installed, the credential is not set, the client cannot be constructed,
\* the request raises, or the response carries no text.
C10_CallNeverRaises ==
    CallReturned =>
        /\ reply.raised = "none"
        /\ (FailingStep # "none" => reply.none)

AnswerReturned == pc = "returned_answer"

\* the service call came back with nothing to use: None or an empty text
ServiceUnavailable == ServiceCallReturned /\ ~Truthy(_call_openai(env))

\* the text holds a value read from the metrics
HasMetricsFigure(text) == \E k \in 1..Len(text) : text[k].kind = "metrics"

\* C11: with the service unavailable, every narrative function returns a
\* non-empty text that contains at least one figure of the supplied metrics.
C11_FallbackHasFigure ==
    (NarrativeReturned /\ ServiceUnavailable) =>
        /\ reply.raised = "none"
        /\ ~reply.none
        /\ reply.text # <<>>
        /\ HasMetricsFigure(reply.text)

\* the service returned a non-empty text that json.loads rejects
NonJsonText ==
    /\ ServiceCallReturned
    /\ Truthy(_call_openai(env))
    /\ \A k \in 1..Len(env.output_text.text) : env.output_text.text[k].kind # "json"

\* what is left of a text once the white space at its two ends is taken off
Trimmed(text) ==
    LET inner == {k \in 1..Len(text) : text[k].kind # "ws"}
    IN  IF inner = {} THEN <<>>
        ELSE SubSeq(text, CHOOSE k \in inner : \A j \in inner : k <= j,
                          CHOOSE k \in inner : \A j \in inner : j <= k)

\* C12: when the service returns a non-empty text that is not JSON,
\* summarise_insights returns that text, stripped, as the summary and the
\* caller's fallback actions unchanged.
C12_NonJsonVerbatim ==
    (InsightsReturned /\ NonJsonText) =>
        /\ reply.raised = "none"
        /\ ~reply.none
        /\ reply.text = Trimmed(env.output_text.text)
        /\ reply.actions = call.fallback_actions

\* a padded plain text came back and is returned without the padding
C12_Witness ==
    /\ InsightsReturned
    /\ NonJsonText
    /\ Len(env.output_text.text) = 3
    /\ reply.text = <<env.output_text.text[2]>>
    /\ reply.actions = call.fallback_actions
    /\ reply.actions # <<>>

\* the 'actions' of the payload the service returned, when it is a JSON object
\* holding a list there; no items otherwise
PayloadItems ==
    LET text == Trimmed(env.output_text.text)
    IN  IF ~env.output_text.none /\ Len(text) = 1 /\ text[1].kind = "json"
           /\ text[1].doc.t = "object" /\ text[1].doc.actions.t = "list"
        THEN text[1].doc.actions.items
        ELSE <<>>

\* the entry made of a dict item: its title and body, or the defaults
EntryOf(item) ==
    [title |-> IF item.title.none THEN Lit("Recommendation") ELSE item.title.text,
     body  |-> IF item.body.none THEN <<>> ELSE item.body.text]

\* the positions of the dicts among the first three items
LeadingDicts ==
    {j \in 1..Len(PayloadItems) : j <= 3 /\ PayloadItems[j].t = "dict"}

\* C13: the actions summarise_insights returns are the caller's fallback list
\* unchanged, or one to three entries of exactly a title and a body, made in
\* order of the dicts among the first three items of the payload's
\* 'actions'; the list is never empty when the fallback list is not.
C13_ActionsShape ==
    (InsightsReturned /\ reply.raised = "none") =>
        /\ \/ reply.actions = call.fallback_actions
           \/ /\ Len(reply.actions) \in 1..3
              /\ Len(reply.actions) = Cardinality(LeadingDicts)
              /\ \A k \in 1..Len(reply.actions) :
                    /\ DOMAIN reply.actions[k] = {"title", "body"}
                    /\ \E j \in LeadingDicts :
                          /\ Cardinality({i \in LeadingDicts : i < j}) = k - 1
                          /\ reply.actions[k] = EntryOf(PayloadItems[j])
        /\ call.fallback_actions # <<>> => reply.actions # <<>>

\* four items came back, the first not a dict and the fourth beyond the cut:
\* two entries are returned, one of them filled with the defaults
C13_Witness ==
    /\ InsightsReturned
    /\ reply.raised = "none"
    /\ Len(PayloadItems) = 4
    /\ PayloadItems[1].t # "dict"
    /\ PayloadItems[4].t = "dict"
    /\ Len(reply.actions) = 2
    /\ reply.actions[1] = [title |-> Lit("Recommendation"), body |-> <<>>]
    /\ reply.actions # call.fallback_actions

\* the keyword groups of the fallback, in their order of precedence
KeywordGroups ==
    <<{"trend", "momentum", "trajectory"}, {"forecast", "next"},
      {"segment", "customer"}, {"channel", "region"},
      {"what can you do", "help"}>>

\* the keywords a word of a question holds once case is set aside
KeywordsIn(word) ==
    CASE word = "TREND" -> {"trend"}
      [] word = "Customers" -> {"customer"}
      [] OTHER -> {word} \cap UNION {KeywordGroups[g] : g \in 1..Len(KeywordGroups)}

KeywordsOf(question) ==
    IF question.none THEN {}
    ELSE UNION {KeywordsIn(question.words[i]) : i \in 1..Len(question.words)}

\* the earliest group a question holds a keyword of; 6, the generic answer,
\* when it holds none
FirstGroup(question) ==
    LET hit == {g \in 1..Len(KeywordGroups) : KeywordGroups[g] \cap KeywordsOf(question) # {}}
    IN  IF hit = {} THEN Len(KeywordGroups) + 1
        ELSE CHOOSE g \in hit : \A h \in hit : g <= h

ForecastClause(c, lead, mid, tail) ==
    IF HasForecastFigures(c)
    THEN Lit(lead) \o Fig("forecast", "forecast_revenue") \o Lit(mid)
         \o Fig("forecast", "forecast_units") \o Lit(tail)
    ELSE <<>>

\* the answer of each group
AnswerOfGroup(g, c) ==
    CASE g = 1 -> Trimmed(base_summary(c) \o last_week_delta(c)
                          \o (IF HasForecastFigures(c) THEN Space ELSE <<>>)
                          \o ForecastClause(c, "Next month is forecasted at $", " and ", " units."))
      [] g = 2 -> base_summary(c)
                  \o (IF HasForecastFigures(c)
                      THEN ForecastClause(c, "We expect around $", " revenue and ", " units next month.")
                      ELSE Lit("Forecast data is available once enough historical sales accumulate."))
      [] g = 3 -> base_summary(c) \o top_segment(c)
      [] g = 4 -> base_summary(c) \o top_channel(c)
      [] g = 5 -> Lit("I can summarise performance, call out momentum shifts, highlight key buyer cohorts, and forecast next month's sales. Try asking about the revenue trend, top segments, or how the forecast looks.")
      [] OTHER -> Trimmed(base_summary(c)
                          \o (IF c.segments # <<>> THEN top_segment(c) ELSE top_channel(c))
                          \o (IF HasForecastFigures(c) THEN Space ELSE <<>>)
                          \o ForecastClause(c, "Forecast: $", " / ", " units next month."))

\* C14: the fallback of answer_question answers for exactly one group, found
\* by case-insensitive substring match in the precedence trend/momentum/
\* trajectory, forecast/next, segment/customer, channel/region, help phrases,
\* and gives the generic answer when no keyword matches (an empty or absent
\* question included); with keywords of several groups the earliest wins.
C14_FallbackPrecedence ==
    (AnswerReturned /\ ServiceUnavailable) =>
        /\ reply.raised = "none"
        /\ reply.text = AnswerOfGroup(FirstGroup(call.question), call)

\* a question with an upper-case keyword of the first group after a keyword
\* of the third, in a context where the six answers all differ
C14_Witness ==
    /\ AnswerReturned
    /\ ServiceUnavailable
    /\ call.question.words = <<"segment", "TREND">>
    /\ reply.text = AnswerOfGroup(1, call)
    /\ \A g, h \in 1..6 : g # h => AnswerOfGroup(g, call) # AnswerOfGroup(h, call)

----------------------------------------------------------------------------
(* Properties of the request pipeline *)

AggregationFunctions ==
    {"compute_summary_metrics", "compute_time_series", "channel_mix", "region_mix"}

\* the adapter has no product, or no transactions, for the selected id
DataUnavailable == session.store.product = "None" \/ session.store.rows = <<>>

\* main is past the statement that reads what is missing
PastTheAdapter ==
    IF session.store.product = "None" THEN pc # "get_product_details"
    ELSE pc \notin {"get_product_details", "filter_transactions_by_product"}

StopMessages ==
    {"error: Unable to load product details.",
     "warning: No transactions available for this product in the sample data."}

\* C15: when the adapter returns no product or no transactions, the request
\* stops with a message on the page before any metric, time series, mix,
\* forecast or narrative is computed or rendered; no aggregation function is
\* ever invoked with an empty transaction set.
C15_StopsOnMissingData ==
    /\ \A k \in 1..Len(session.invoked) :
          session.invoked[k].fn \in AggregationFunctions
              => session.invoked[k].rows > 0
    /\ DataUnavailable =>
          /\ session.invoked = <<>>
          /\ metrics = NoMetrics /\ time_series = <<>> /\ mix = <<>>
          /\ forecast = NotCalled /\ reply = NoReply
          /\ session.narrative.none /\ session.trend_commentary.none
          /\ PastTheAdapter =>
                /\ pc = "stopped"
                /\ Len(session.page) = 2
                /\ session.page[1] = "title"
                /\ session.page[2] \in StopMessages

\* the product is there, its transactions are not: the warning is shown and
\* the run has stopped
C15_Witness ==
    /\ pc = "stopped"
    /\ session.store.product # "None"
    /\ session.store.rows = <<>>
    /\ session.page[Len(session.page)] =
          "warning: No transactions available for this product in the sample data."

NarrativeInvoked ==
    \E k \in 1..Len(session.invoked) : session.invoked[k].fn = "summarise_trend"

\* C16: in every request the forecast handed to the narrative functions and
\* shown on the page is the forecast engine's result for the monthly rollup
\* of the product's transactions (method 'weighted_trend'), computed after
\* the aggregation and before the narrative.
C16_ForecastFromEngine ==
    NarrativeInvoked =>
        /\ call.forecast.method = "weighted_trend"
        /\ \E j, k \in 1..Len(session.invoked) :
              /\ j < k
              /\ session.invoked[j].fn \in {"compute_forecast", "forecast_next_period"}
              /\ session.invoked[k].fn = "summarise_trend"

----------------------------------------------------------------------------
(* Properties of the trend scenarios *)

\* the monthly revenues are 1000, 1100, 1200
Revenues_1000_1100_1200 ==
    Len(monthly) = 3 /\ InMonthOrder("revenue") = <<1000, 1100, 1200>>

\* C18, as claimed: for the monthly revenues [1000, 1100, 1200] the blended
\* point forecast is >= 1100 * 0.35 + 1200.
C18_SanityBoundAsClaimed ==
    (FromRollup /\ Revenues_1000_1100_1200) =>
        RLe(RAdd(RMul(RInt(1100), R(35, 100)), RInt(1200)), forecast.value.revenue)

\* C18, amended: for the monthly revenues [1000, 1100, 1200] the blended
\* point forecast is 1230, which is >= 1100 * 0.35 + 1200 * 0.65 and below
\* 1100 * 0.35 + 1200.
C18_SanityBound ==
    (FromRollup /\ Revenues_1000_1100_1200) =>
        /\ forecast.value.revenue = RInt(1230)
        /\ RLe(RAdd(RMul(RInt(1100), R(35, 100)), RMul(RInt(1200), R(65, 100))),
               forecast.value.revenue)
        /\ RLt(forecast.value.revenue,
               RAdd(RMul(RInt(1100), R(35, 100)), RInt(1200)))

\* the three months handed over latest first
C18_Witness ==
    /\ FromRollup
    /\ Revenues_1000_1100_1200
    /\ monthly[1].revenue = 1200
    /\ forecast.value.method = "weighted_trend"

StrictlyIncreasing(v) == \A i \in 1..(Len(v) - 1) : v[i] < v[i + 1]

\* C19: for the monthly revenues [1000, 1100, 1200] the trend at the next
\* index is above 1200, the mean of the last 3 months is 1100 and the point
\* forecast lies strictly between 1100 and the trend; for every strictly
\* increasing 3-month series the point forecast lies strictly between the
\* rolling mean and the trend extrapolation.
C19_BlendBetween ==
    (FromRollup /\ Len(monthly) = 3 /\ StrictlyIncreasing(InMonthOrder("revenue"))) =>
        LET v     == InMonthOrder("revenue")
            trend == LeastSquaresAtNext(v)
            mean  == MeanOfLast3(v)
        IN  /\ RLt(mean, forecast.value.revenue)
            /\ RLt(forecast.value.revenue, trend)
            /\ Revenues_1000_1100_1200 =>
                  /\ RLt(RInt(1200), trend)
                  /\ mean = RInt(1100)
                  /\ RLt(RInt(1100), forecast.value.revenue)

\* a series that rises by unequal steps, forecast above its last month
C19_Witness ==
    /\ FromRollup
    /\ InMonthOrder("revenue") = <<1000, 1050, 1300>>
    /\ RLt(RInt(1300), forecast.value.revenue)
    /\ RLt(forecast.value.revenue, LeastSquaresAtNext(InMonthOrder("revenue")))

----------------------------------------------------------------------------
(* Properties of the mix on a single channel *)

Channels == {"Online", "Retail Store", "Other"}

\* the mix computed is the one by channel, of rows that all carry one channel
SingleChannelMix ==
    /\ MixComputed
    /\ \A k \in 1..Len(mix) : mix[k].category \in Channels
    /\ \A i, j \in Indices(tx) : tx[i].channel = tx[j].channel

\* C20, as claimed: for any non-empty transaction sequence whose rows all
\* carry the same channel, the mix by channel has exactly one entry, and its
\* share is 100.
C20_SingleChannelIs100 ==
    SingleChannelMix => (Len(mix) = 1 /\ mix[1].share = RInt(100))

\* C20, amended: such a mix has exactly one entry, for that channel, holding
\* the whole revenue; its share is 100 when the revenue is positive and 0
\* when every row's revenue is zero.
C20_SingleChannelEntry ==
    SingleChannelMix =>
        /\ Len(mix) = 1
        /\ mix[1].category = tx[1].channel
        /\ mix[1].revenue = SumOver(tx, Indices(tx), "gross_revenue")
        /\ mix[1].share = (IF SomeRevenue THEN RInt(100) ELSE RInt(0))

\* several rows, all sold online, with revenue: one entry of 100
C20_Witness ==
    /\ SingleChannelMix
    /\ Len(tx) >= 3
    /\ tx[1].channel = "Online"
    /\ SomeRevenue
    /\ \E i \in Indices(tx) : tx[i].gross_revenue = 0
    /\ mix = <<[category |-> "Online", revenue |-> mix[1].revenue, share |-> RInt(100)]>>

----------------------------------------------------------------------------
(* Properties of the weekly buckets *)

\* day 0 is a Monday
Weekday(day) ==
    <<"Monday", "Tuesday", "Wednesday", "Thursday", "Friday", "Saturday",
      "Sunday">>[(day % 7) + 1]

\* the transactions (by index) dated from a day through the sixth day after it
DatedWithinWeekFrom(day) ==
    {i \in Indices(tx) : day <= tx[i].transaction_date
                         /\ tx[i].transaction_date <= day + 6}

HoldsExactlyTheWeekFrom(k) ==
    LET start == time_series[k].period_start
    IN  /\ time_series[k].units = SumOver(tx, DatedWithinWeekFrom(start), "units")
        /\ Abs(time_series[k].revenue
               - SumOver(tx, DatedWithinWeekFrom(start), "gross_revenue")) <= 5
        /\ \A i \in Indices(tx) :
              k \in BucketsOf(tx[i].transaction_date) <=> i \in DatedWithinWeekFrom(start)

\* C21, as claimed: every weekly bucket is labeled with a Monday and holds
\* exactly the transactions dated from that Monday through the next Sunday.
C21_MondayBuckets ==
    SeriesComputed =>
        \A k \in 1..Len(time_series) :
            /\ Weekday(time_series[k].period_start) = "Monday"
            /\ Weekday(time_series[k].period_start + 6) = "Sunday"
            /\ HoldsExactlyTheWeekFrom(k)

\* C21, amended: every weekly bucket is labeled with a Sunday and holds
\* exactly the transactions dated from that Sunday through the next Saturday.
C21_SundayBuckets ==
    SeriesComputed =>
        \A k \in 1..Len(time_series) :
            /\ Weekday(time_series[k].period_start) = "Sunday"
            /\ Weekday(time_series[k].period_start + 6) = "Saturday"
            /\ HoldsExactlyTheWeekFrom(k)

\* a sale on a Saturday and one on the Sunday after it: two buckets, the
\* second labeled with that Sunday
C21_Witness ==
    /\ SeriesComputed
    /\ Len(tx) >= 2
    /\ Weekday(tx[1].transaction_date) = "Saturday"
    /\ tx[2].transaction_date = tx[1].transaction_date + 1
    /\ tx[1].units > 0 /\ tx[2].units > 0
    /\ Len(time_series) >= 2
    /\ time_series[1].units = tx[1].units
    /\ time_series[2].period_start = tx[2].transaction_date

FirstDate == MinOf({tx[i].transaction_date : i \in Indices(tx)})

\* C22: for a non-empty input the series is non-empty and strictly ascending
\* by period_start, consecutive starts one week apart; the first bucket holds
\* the earliest transaction and the last the latest, so no empty bucket comes
\* before the first or after the last date; a bucket in between without
\* transactions is present with units 0 and revenue 0.
C22_SeriesShape ==
    (pc = "done" /\ metrics = NoMetrics /\ tx # <<>>) =>
        /\ Len(time_series) >= 1
        /\ \A k \in 1..(Len(time_series) - 1) :
              time_series[k + 1].period_start = time_series[k].period_start + 7
        /\ BucketsOf(FirstDate) = {1}
        /\ BucketsOf(LastDate) = {Len(time_series)}
        /\ \A k \in 1..Len(time_series) :
              MembersOf(k) = {} =>
                  /\ 1 < k /\ k < Len(time_series)
                  /\ time_series[k].units = 0
                  /\ time_series[k].revenue = 0

\* the earliest sale falls on a Sunday, the latest weeks after it: the weeks
\* in between are there, empty
C22_Witness ==
    /\ SeriesComputed
    /\ Weekday(FirstDate) = "Sunday"
    /\ time_series[1].period_start = FirstDate
    /\ Len(time_series) >= 4
    /\ \E k \in 2..(Len(time_series) - 1) :
          MembersOf(k) = {} /\ time_series[k].units = 0
    /\ MembersOf(Len(time_series)) # {}

----------------------------------------------------------------------------
(* Mock scenarios: up to MaxCalls calls of generate_mock_forecast,          *)
(* generate_mock_segments and compute_time_series, in any order, for a      *)
(* product with or without transaction history                              *)

MaxCalls == 3

\* the shares read seed % 10 and (seed // 3) % 10 only: SeedResidues
\* consecutive seeds show every case
SeedResidues == 30

MockSeeds == 0..(SeedResidues - 1) \cup SeedChoices

\* sha1 over the product names: the first name takes every seed, the second,
\* called in between, the seeds at the ends of the forecast's ranges
MockDigests ==
    {sha1 \in [ProductNames -> MockSeeds] : sha1["Example Product"] \in SeedChoices}

Observation(fn, product_name, value) ==
    [fn |-> fn, product_name |-> product_name, value |-> value]

InitMock ==
    /\ pc = "mock"
    /\ monthly = <<>>
    /\ forecast = NotCalled
    /\ digest \in MockDigests
    /\ tx \in {<<>>, SampleTx}
    /\ time_series = <<>>
    /\ metrics = NoMetrics
    /\ windows = NoWindows
    /\ mix = <<>>
    /\ IdleNarrative
    /\ IdleSession
    /\ IdleAdapter
    /\ NothingObserved

\* insights.py:133-149
MockForecast ==
    /\ pc = "mock"
    /\ Len(observed) < MaxCalls
    /\ \E name \in ProductNames :
          /\ forecast' = Returned(generate_mock_forecast(digest, name))
          /\ observed' = Append(observed,
                Observation("generate_mock_forecast", name, forecast'.value))
    /\ UNCHANGED <<adapterVars, session, pc, monthly, digest, aggVars, llmVars>>

\* insights.py:152-180
MockSegments ==
    /\ pc = "mock"
    /\ Len(observed) < MaxCalls
    /\ \E name \in ProductNames :
          observed' = Append(observed,
              Observation("generate_mock_segments", name,
                          generate_mock_segments(digest, name)))
    /\ UNCHANGED <<adapterVars, session, pc, forecastVars, aggVars, llmVars>>

\* insights.py:12-22, called between the two in main
MockComputeTimeSeries ==
    /\ pc = "mock"
    /\ Len(observed) < MaxCalls
    /\ ~empty(tx)
    /\ time_series' = compute_time_series(tx)
    /\ observed' = Append(observed,
          Observation("compute_time_series", "transactions", time_series'))
    /\ UNCHANGED <<adapterVars, session, pc, forecastVars, tx, metrics, windows,
                   mix, llmVars>>

NextMock == MockForecast \/ MockSegments \/ MockComputeTimeSeries

SpecMock == InitMock /\ [][NextMock]_vars

----------------------------------------------------------------------------
(* Properties of the mock generators *)

ObservedCalls(fn) == {i \in 1..Len(observed) : observed[i].fn = fn}

SegmentNames == <<"Digital Loyalists", "Store Stylists", "Seasonal Gifters">>

\* "0%" .. "100%"
PercentTexts == [n \in 0..100 |-> IntText(n) \o "%"]

IsPercentText(text) == \E n \in 0..100 : PercentTexts[n] = text

PercentOf(text) == CHOOSE n \in 0..100 : PercentTexts[n] = text

\* C24: generate_mock_segments returns exactly three segments, named Digital
\* Loyalists, Store Stylists and Seasonal Gifters in that order, whose shares
\* are whole percentages between 0 and 100 that sum to exactly 100.
C24_MockSegmentsShape ==
    \A i \in ObservedCalls("generate_mock_segments") :
        LET segments == observed[i].value
        IN  /\ Len(segments) = 3
            /\ \A k \in 1..3 :
                  /\ segments[k].segment = SegmentNames[k]
                  /\ IsPercentText(segments[k].share)
            /\ (\A k \in 1..3 : IsPercentText(segments[k].share)) =>
                  PercentOf(segments[1].share) + PercentOf(segments[2].share)
                  + PercentOf(segments[3].share) = 100

\* a seed whose rounded shares sum to 99 or 101, so that the adjustment acts
C24_Witness ==
    \E i \in ObservedCalls("generate_mock_segments") :
        LET seed == digest[observed[i].product_name]
        IN  /\ SumSeq(MockSharesUnadjusted(seed)) # 100
            /\ PercentOf(observed[i].value[1].share)
                  # MockSharesUnadjusted(seed)[1]

----------------------------------------------------------------------------
(* app/data_loader.py: the transaction store adapter.  A str is a tuple of  *)
(* characters; an integer is a sign and its decimal digits, so that keys    *)
(* beyond 64 bits can be told from those within.                            *)

PyNone == [type |-> "NoneType", chars |-> <<>>]
PyStr(chars) == [type |-> "str", chars |-> chars]

IsDigit(c) == c \in {Digit(d) : d \in 0..9}

DigitValue(c) == CHOOSE d \in 0..9 : Digit(d) = c

RECURSIVE StripChars(_)
\* str.strip()
StripChars(chars) ==
    IF chars # <<>> /\ chars[1] = " " THEN StripChars(Tail(chars))
    ELSE IF chars # <<>> /\ chars[Len(chars)] = " "
    THEN StripChars(SubSeq(chars, 1, Len(chars) - 1))
    ELSE chars

\* the digits of an integer literal: digits with single underscores between
IsIntegerBody(body) ==
    /\ body # <<>>
    /\ IsDigit(body[1])
    /\ IsDigit(body[Len(body)])
    /\ \A i \in 1..Len(body) : IsDigit(body[i]) \/ body[i] = "_"
    /\ \A i \in 1..(Len(body) - 1) : ~(body[i] = "_" /\ body[i + 1] = "_")

RECURSIVE DropLeadingZeros(_)
DropLeadingZeros(digits) ==
    IF Len(digits) > 1 /\ digits[1] = "0" THEN DropLeadingZeros(Tail(digits))
    ELSE digits

PyInt(raised, negative, digits) ==
    [raised |-> raised, negative |-> negative, digits |-> digits]

\* int(x) for x a str or None: whitespace around, an optional sign, digits
int(x) ==
    IF x.type = "NoneType" THEN PyInt("TypeError", FALSE, <<>>)
    ELSE LET stripped == StripChars(x.chars)
             signed   == stripped # <<>> /\ stripped[1] \in {"+", "-"}
             body     == IF signed THEN Tail(stripped) ELSE stripped
             digits   == DropLeadingZeros(SelectSeq(body, IsDigit))
         IN  IF ~IsIntegerBody(body) THEN PyInt("ValueError", FALSE, <<>>)
             ELSE PyInt("none", signed /\ stripped[1] = "-" /\ digits # <<"0">>,
                        digits)

\* str(n)
str(n) == IF n.negative THEN <<"-">> \o n.digits ELSE n.digits

\* lines 32-36
_normalise_product_id(product_id) ==
    LET n == int(product_id)
    IN  IF n.raised \in {"TypeError", "ValueError"}
        THEN PyInt("ValueError", FALSE, <<>>)
        ELSE n

\* 2^63 - 1 and 2^63: the ends of SQLite's INTEGER
Int64Max ==
    <<"9", "2", "2", "3", "3", "7", "2", "0", "3", "6", "8", "5", "4", "7", "7",
      "5", "8", "0", "7">>
Int64MinMagnitude ==
    <<"9", "2", "2", "3", "3", "7", "2", "0", "3", "6", "8", "5", "4", "7", "7",
      "5", "8", "0", "8">>

RECURSIVE DigitsLe(_, _)
\* a <= b for digit tuples of one length
DigitsLe(a, b) ==
    IF a = <<>> THEN TRUE
    ELSE IF a[1] = b[1] THEN DigitsLe(Tail(a), Tail(b))
    ELSE DigitValue(a[1]) < DigitValue(b[1])

\* sqlite3 binds a Python int as a parameter only when it fits 64 bits;
\* otherwise execute raises OverflowError
BindsAsInteger(n) ==
    LET bound == IF n.negative THEN Int64MinMagnitude ELSE Int64Max
    IN  \/ Len(n.digits) < Len(bound)
        \/ Len(n.digits) = Len(bound) /\ DigitsLe(n.digits, bound)

\* what a call did: the exception raised ("none" when it returned), whether
\* it opened the database, and the value returned
Result(raised, connected, value) ==
    [raised |-> raised, connected |-> connected, value |-> value]

NoValue == [none |-> TRUE]

\* lines 18-29: _ensure_database, then sqlite3.connect
_connect(db) == IF db.exists THEN "none" ELSE "DataSourceError"

WhereArticle(table, key) ==
    SelectSeq(table, LAMBDA row : row.article_id = key.digits /\ ~key.negative)

\* lines 66-90
get_product_details(db, product_id) ==
    LET product_id_int == _normalise_product_id(product_id)
        rows           == WhereArticle(db.article_summary, product_id_int)
    IN  IF product_id_int.raised # "none"
        THEN Result(product_id_int.raised, FALSE, NoValue)
        ELSE IF _connect(db) # "none" THEN Result(_connect(db), FALSE, NoValue)
        ELSE IF ~BindsAsInteger(product_id_int)
        THEN Result("OverflowError", TRUE, NoValue)
        ELSE IF rows = <<>> THEN Result("none", TRUE, NoValue)
        ELSE Result("none", TRUE,
                    [none          |-> FALSE,
                     product_id    |-> rows[1].article_id,
                     product_name  |-> rows[1].product_name,
                     category      |-> rows[1].category,
                     brand         |-> rows[1].brand,
                     total_revenue |-> rows[1].total_revenue])

RECURSIVE InsertByDate(_, _)
InsertByDate(row, sorted) ==
    IF sorted = <<>> THEN <<row>>
    ELSE IF row.row.transaction_date < Head(sorted).row.transaction_date
    THEN <<row>> \o sorted
    ELSE <<Head(sorted)>> \o InsertByDate(row, Tail(sorted))

RECURSIVE OrderByTransactionDate(_)
\* ORDER BY transaction_date, rows of one date in rowid order
OrderByTransactionDate(rows) ==
    IF rows = <<>> THEN <<>>
    ELSE InsertByDate(rows[Len(rows)],
                      OrderByTransactionDate(SubSeq(rows, 1, Len(rows) - 1)))

\* pandas.read_sql_query(sql, conn, params=(product_id_int,)): the selected
\* columns of the article's rows; the driver's OverflowError is re-raised by
\* pandas as DatabaseError.  A table row is [article_id, row], row holding
\* the selected columns.
read_sql_query(table, product_id_int, order_by) ==
    IF ~BindsAsInteger(product_id_int) THEN Result("DatabaseError", TRUE, <<>>)
    ELSE LET rows    == WhereArticle(table, product_id_int)
             ordered == IF order_by = "transaction_date"
                        THEN OrderByTransactionDate(rows) ELSE rows
         IN  Result("none", TRUE, [i \in 1..Len(ordered) |-> ordered[i].row])

\* lines 184-197
get_customer_segments(db, product_id) ==
    LET product_id_int == _normalise_product_id(product_id)
    IN  IF product_id_int.raised # "none"
        THEN Result(product_id_int.raised, FALSE, <<>>)
        ELSE IF _connect(db) # "none" THEN Result(_connect(db), FALSE, <<>>)
        ELSE read_sql_query(db.article_segments, product_id_int, "rowid")

\* lines 200-220
filter_transactions_by_product(db, product_id) ==
    LET product_id_int == _normalise_product_id(product_id)
    IN  IF product_id_int.raised # "none"
        THEN Result(product_id_int.raised, FALSE, <<>>)
        ELSE IF _connect(db) # "none" THEN Result(_connect(db), FALSE, <<>>)
        ELSE read_sql_query(db.article_daily_metrics, product_id_int,
                            "transaction_date")

UpperCase ==
    <<"A", "B", "C", "D", "E", "F", "G", "H", "I", "J", "K", "L", "M", "N", "O",
      "P", "Q", "R", "S", "T", "U", "V", "W", "X", "Y", "Z">>
LowerCase ==
    <<"a", "b", "c", "d", "e", "f", "g", "h", "i", "j", "k", "l", "m", "n", "o",
      "p", "q", "r", "s", "t", "u", "v", "w", "x", "y", "z">>

LowerChar(c) ==
    IF \E i \in 1..Len(UpperCase) : UpperCase[i] = c
    THEN LowerCase[CHOOSE i \in 1..Len(UpperCase) : UpperCase[i] = c]
    ELSE c

\* str.lower()
lower(chars) == [i \in 1..Len(chars) |-> LowerChar(chars[i])]

RECURSIVE Like(_, _)
\* SQLite's text LIKE pattern: % is any run of characters, _ any one
\* character, letters match without regard to case
Like(text, pattern) ==
    IF pattern = <<>> THEN text = <<>>
    ELSE IF pattern[1] = "%"
    THEN Like(text, Tail(pattern)) \/ (text # <<>> /\ Like(Tail(text), pattern))
    ELSE /\ text # <<>>
         /\ pattern[1] = "_" \/ LowerChar(pattern[1]) = LowerChar(text[1])
         /\ Like(Tail(text), Tail(pattern))

RECURSIVE InsertByRevenue(_, _)
InsertByRevenue(row, sorted) ==
    IF sorted = <<>> THEN <<row>>
    ELSE IF row.total_revenue > Head(sorted).total_revenue
    THEN <<row>> \o sorted
    ELSE <<Head(sorted)>> \o InsertByRevenue(row, Tail(sorted))

RECURSIVE OrderByTotalRevenueDesc(_)
\* ORDER BY summary.total_revenue DESC, rows of one revenue in rowid order
OrderByTotalRevenueDesc(rows) ==
    IF rows = <<>> THEN <<>>
    ELSE InsertByRevenue(rows[Len(rows)],
                         OrderByTotalRevenueDesc(SubSeq(rows, 1, Len(rows) - 1)))

\* a plausible slip: the LIMIT clause is left out of the query
LimitOmitted(rows, limit) == rows

\* LIMIT ?: a negative limit is no limit
Limit(rows, limit) ==
    IF limit < 0 \/ limit >= Len(rows) THEN rows ELSE SubSeq(rows, 1, limit)

\* lines 95-125: the rows fetched, each with product_id = str(article_id)
FetchRecords(db, query, limit) ==
    LET like_pattern == <<"%">> \o query \o <<"%">>
        matching == IF query = <<>> THEN db.article_summary
                    ELSE SelectSeq(db.article_summary,
                            LAMBDA row : \/ Like(row.product_name, like_pattern)
                                         \/ Like(row.article_id, like_pattern))
        fetched == Limit(OrderByTotalRevenueDesc(matching), limit)
    IN  [i \in 1..Len(fetched) |->
            [product_id    |-> fetched[i].article_id,
             product_name  |-> fetched[i].product_name,
             brand         |-> fetched[i].brand,
             category      |-> fetched[i].category,
             descriptor    |-> fetched[i].descriptor,
             colour        |-> fetched[i].colour,
             total_revenue |-> fetched[i].total_revenue]]

\* a plausible slip: the name is the key as it is written
GroupKeyAsWritten(record) == record.product_name

\* line 133
GroupKey(record) == lower(record.product_name)

\* a plausible slip: the row of the queried id is not preferred
NextBaseByRevenue(base, record, query_id) ==
    IF record.total_revenue > base.total_revenue /\ record.product_id # query_id
    THEN record ELSE base

\* lines 141-154: the base record of a group after one more of its records
NextBase(base, record, query_id) ==
    LET replaced == IF /\ record.total_revenue > base.total_revenue
                       /\ record.product_id # query_id
                    THEN record ELSE base
    IN  IF query_id # <<>> /\ record.product_id = query_id THEN record
        ELSE replaced

\* colours of the palette in sorted() order
SortedColours == <<"Black", "Blue", "Red", "White">>

RECURSIVE GroupRecords(_, _, _, _)
\* lines 132-154: the loop over records; grouped maps a key to its entry,
\* ordered_keys lists the keys by first appearance
GroupRecords(records, grouped, ordered_keys, query_id) ==
    IF records = <<>> THEN [grouped |-> grouped, ordered_keys |-> ordered_keys]
    ELSE LET record == Head(records)
             key    == GroupKey(record)
             colour == IF record.colour = "" THEN {} ELSE {record.colour}
             entry  ==
                 IF key \notin DOMAIN grouped
                 THEN [base     |-> record,
                       colours  |-> colour,
                       variants |-> <<record.product_id>>]
                 ELSE [base     |-> NextBase(grouped[key].base, record, query_id),
                       colours  |-> grouped[key].colours \cup colour,
                       variants |-> Append(grouped[key].variants, record.product_id)]
         IN  GroupRecords(Tail(records),
                          [k \in DOMAIN grouped \cup {key} |->
                              IF k = key THEN entry ELSE grouped[k]],
                          IF key \in DOMAIN grouped THEN ordered_keys
                          ELSE Append(ordered_keys, key),
                          query_id)

\* lines 159-166
DescriptorOf(entry) ==
    LET colours == SelectSeq(SortedColours, LAMBDA c : c \in entry.colours)
    IN  IF colours # <<>>
        THEN [category |-> entry.base.category,
              colours  |-> SubSeq(colours, 1, IF Len(colours) > 3 THEN 3 ELSE Len(colours)),
              more     |-> Len(colours) > 3]
        ELSE [category |-> entry.base.descriptor, colours |-> <<>>, more |-> FALSE]

RECURSIVE BuildResults(_, _, _, _)
\* lines 156-179: one descriptor per key, until len(results) >= limit
BuildResults(ordered_keys, grouped, limit, results) ==
    IF ordered_keys = <<>> THEN results
    ELSE LET entry   == grouped[Head(ordered_keys)]
             longer  == Append(results,
                           [product_id   |-> entry.base.product_id,
                            product_name |-> entry.base.product_name,
                            brand        |-> entry.base.brand,
                            category     |-> entry.base.category,
                            descriptor   |-> DescriptorOf(entry)])
         IN  IF Len(longer) >= limit THEN longer
             ELSE BuildResults(Tail(ordered_keys), grouped, limit, longer)

\* lines 93-181; query is a str or None
search_products(db, query, limit) ==
    LET stripped == IF query.type = "NoneType" THEN <<>> ELSE StripChars(query.chars)
        records  == FetchRecords(db, stripped, limit)
        groups   == GroupRecords(records, [k \in {} |-> <<>>], <<>>, stripped)
    IN  IF _connect(db) # "none" THEN Result(_connect(db), FALSE, <<>>)
        ELSE Result("none", TRUE,
                    BuildResults(groups.ordered_keys, groups.grouped, limit, <<>>))

----------------------------------------------------------------------------
(* Adapter scenarios: one call of a function of app/data_loader.py against  *)
(* a database file that may be missing, with identifiers and queries as a   *)
(* user may type them                                                       *)

MaxArticles == 3

Chars42 == <<"4", "2">>
Chars142 == <<"1", "4", "2">>
Chars7 == <<"7">>

ArticleIds == {Chars42, Chars142, Chars7}

ArticleNames == {<<"T", "e", "e">>, <<"T", "E", "E">>, <<"C", "a", "p">>}

TotalRevenues == {100, 200}

\* articles.colour_group_name of an article; "" where the join finds none
ColourOf(article_id) ==
    CASE article_id = Chars42 -> "Blue"
      [] article_id = Chars142 -> "Black"
      [] OTHER -> ""

\* a row of article_summary joined with articles, the columns that
\* search_products COALESCEs all NULL
MakeArticle(article_id, product_name, total_revenue) ==
    [article_id    |-> article_id,
     product_name  |-> product_name,
     brand         |-> "H&M",
     category      |-> "Assortment",
     descriptor    |-> "Assortment",
     colour        |-> ColourOf(article_id),
     total_revenue |-> total_revenue]

Articles ==
    {MakeArticle(id, name, revenue) :
        id \in ArticleIds, name \in ArticleNames, revenue \in TotalRevenues}

\* article_summary in rowid order: article_id is its key
ArticleSummaries ==
    {t \in UNION {[1..n -> Articles] : n \in 0..MaxArticles} :
        \A i, j \in 1..Len(t) : i # j => t[i].article_id # t[j].article_id}

MakeDatabase(article_summary, article_daily_metrics, article_segments) ==
    [exists                |-> TRUE,
     opened                |-> 0,
     article_summary       |-> article_summary,
     article_daily_metrics |-> article_daily_metrics,
     article_segments      |-> article_segments]

OfArticle(article_id, rows) ==
    [i \in 1..Len(rows) |-> [article_id |-> article_id, row |-> rows[i]]]

\* one article on file, its daily rows loaded latest first
SampleDatabase ==
    MakeDatabase(<<MakeArticle(Chars42, <<"T", "e", "e">>, 200)>>,
                 OfArticle(Chars42, <<SampleTx[3], SampleTx[1], SampleTx[2]>>)
                     \o OfArticle(Chars7, <<SampleTx[1]>>),
                 OfArticle(Chars42, SampleSegments))

LookupDatabases ==
    {NoDatabase, MakeDatabase(<<>>, <<>>, <<>>), SampleDatabase}

SearchDatabases ==
    {NoDatabase} \cup {MakeDatabase(t, <<>>, <<>>) : t \in ArticleSummaries}

Identifiers ==
    {PyNone, PyStr(<<>>), PyStr(Chars42), PyStr(<<" ", "4", "2", " ">>),
     PyStr(<<"+", "4", "2">>), PyStr(<<"0", "4", "2">>), PyStr(<<"4", "_", "2">>),
     PyStr(<<"9", "9">>), PyStr(<<"-", "7">>), PyStr(<<"a", "b", "c">>),
     PyStr(<<"1", "2", ".", "5">>), PyStr(<<"4", "2", "_">>),
     PyStr(Int64Max), PyStr(Int64MinMagnitude)}

Queries ==
    {PyNone, PyStr(<<>>), PyStr(Chars42), PyStr(<<" ", "4", "2", " ">>),
     PyStr(<<"4">>), PyStr(<<"t", "e", "e">>), PyStr(<<"T", "_", "E">>),
     PyStr(<<"x">>)}

SearchLimits == {-1, 0, 1, 2, 6}

AdapterFunctions ==
    {"get_product_details", "get_customer_segments",
     "filter_transactions_by_product", "search_products"}

Lookup(fn, argument, limit, records, outcome) ==
    [fn |-> fn, argument |-> argument, limit |-> limit, records |-> records,
     outcome |-> outcome]

InitAdapter ==
    /\ pc \in AdapterFunctions
    /\ IdleForecast
    /\ IdleAggregation
    /\ IdleNarrative
    /\ IdleSession
    /\ NothingObserved
    /\ lookup = NoLookup
    /\ database \in (IF pc = "search_products" THEN SearchDatabases
                     ELSE LookupDatabases)

\* sqlite3.connect, when the call comes to it
Connected(outcome) ==
    [database EXCEPT !.opened = IF outcome.connected THEN @ + 1 ELSE @]

CallGetProductDetails ==
    /\ pc = "get_product_details"
    /\ \E product_id \in Identifiers :
          LET outcome == get_product_details(database, product_id)
          IN  /\ lookup' = Lookup(pc, product_id, 0, <<>>, outcome)
              /\ database' = Connected(outcome)
    /\ pc' = "done"
    /\ UNCHANGED <<observed, session, forecastVars, aggVars, llmVars>>

CallGetCustomerSegments ==
    /\ pc = "get_customer_segments"
    /\ \E product_id \in Identifiers :
          LET outcome == get_customer_segments(database, product_id)
          IN  /\ lookup' = Lookup(pc, product_id, 0, <<>>, outcome)
              /\ database' = Connected(outcome)
    /\ pc' = "done"
    /\ UNCHANGED <<observed, session, forecastVars, aggVars, llmVars>>

CallFilterTransactionsByProduct ==
    /\ pc = "filter_transactions_by_product"
    /\ \E product_id \in Identifiers :
          LET outcome == filter_transactions_by_product(database, product_id)
          IN  /\ lookup' = Lookup(pc, product_id, 0, <<>>, outcome)
              /\ database' = Connected(outcome)
    /\ pc' = "done"
    /\ UNCHANGED <<observed, session, forecastVars, aggVars, llmVars>>

\* lookup.records keeps the rows the query fetched
CallSearchProducts ==
    /\ pc = "search_products"
    /\ \E query \in Queries : \E limit \in SearchLimits :
          LET outcome == search_products(database, query, limit)
              stripped == IF query.type = "NoneType" THEN <<>>
                          ELSE StripChars(query.chars)
          IN  /\ lookup' = Lookup(pc, query, limit,
                                  IF outcome.connected
                                  THEN FetchRecords(database, stripped, limit)
                                  ELSE <<>>,
                                  outcome)
              /\ database' = Connected(outcome)
    /\ pc' = "done"
    /\ UNCHANGED <<observed, session, forecastVars, aggVars, llmVars>>

NextAdapter ==
    CallGetProductDetails \/ CallGetCustomerSegments
    \/ CallFilterTransactionsByProduct \/ CallSearchProducts

SpecAdapter == InitAdapter /\ [][NextAdapter]_vars

----------------------------------------------------------------------------
(* Properties of the adapter *)

IdentifierFunctions ==
    {"get_product_details", "get_customer_segments",
     "filter_transactions_by_product"}

LookedUp == pc = "done" /\ lookup.fn \in IdentifierFunctions

Convertible(product_id) == int(product_id).raised = "none"

OnFile(product_id) ==
    \E i \in 1..Len(database.article_summary) :
        /\ ~int(product_id).negative
        /\ database.article_summary[i].article_id = int(product_id).digits

\* C25: an identifier that does not convert to an integer makes each of the
\* three lookups raise ValueError before the database is opened; one that
\* converts but matches no product makes get_product_details return None
\* (the database file being there); neither outcome is taken for the other.
C25_InvalidOrNotFound ==
    LookedUp =>
        /\ ~Convertible(lookup.argument) =>
              /\ lookup.outcome.raised = "ValueError"
              /\ database.opened = 0
        /\ (/\ lookup.fn = "get_product_details"
            /\ Convertible(lookup.argument)
            /\ database.exists
            /\ ~OnFile(lookup.argument)) =>
              /\ lookup.outcome.raised = "none"
              /\ lookup.outcome.value.none
        /\ Convertible(lookup.argument) => lookup.outcome.raised # "ValueError"

Searched ==
    pc = "done" /\ lookup.fn = "search_products" /\ lookup.outcome.raised = "none"

\* the index of the first fetched row with a name, letter case aside
FirstAppearance(product_name) ==
    CHOOSE i \in 1..Len(lookup.records) :
        /\ lower(lookup.records[i].product_name) = lower(product_name)
        /\ \A j \in 1..(i - 1) :
              lower(lookup.records[j].product_name) # lower(product_name)

InDescendingRevenue(records) ==
    \A i \in 1..(Len(records) - 1) :
        records[i].total_revenue >= records[i + 1].total_revenue

DistinctNamesInFetchOrder(results) ==
    /\ \A a, b \in 1..Len(results) :
          a # b => lower(results[a].product_name) # lower(results[b].product_name)
    /\ \A a \in 1..Len(results) :
          \E i \in 1..Len(lookup.records) :
              lower(lookup.records[i].product_name) = lower(results[a].product_name)
    /\ InDescendingRevenue(lookup.records)
    /\ \A a \in 1..(Len(results) - 1) :
          FirstAppearance(results[a].product_name)
              < FirstAppearance(results[a + 1].product_name)

\* C26, as claimed: for every query and limit, search_products returns at
\* most limit descriptors, no two with the same name letter case aside, in
\* the order in which the names first appear among the rows by descending
\* revenue.
C26_AtMostLimit ==
    Searched =>
        /\ Len(lookup.outcome.value) <= lookup.limit
        /\ DistinctNamesInFetchOrder(lookup.outcome.value)

\* C26, amended: the same for every query and every limit that is not
\* negative.
C26_AtMostNonNegativeLimit ==
    (Searched /\ lookup.limit >= 0) =>
        /\ Len(lookup.outcome.value) <= lookup.limit
        /\ DistinctNamesInFetchOrder(lookup.outcome.value)

\* three rows on file under two names, one name in two spellings, and room
\* for two descriptors
C26_Witness ==
    /\ Searched
    /\ lookup.limit = 2
    /\ Len(database.article_summary) = 3
    /\ Len(lookup.records) = 2
    /\ lookup.records[1].product_name # lookup.records[2].product_name
    /\ Len(lookup.outcome.value) = 1

QueryId ==
    IF lookup.argument.type = "NoneType" THEN <<>>
    ELSE StripChars(lookup.argument.chars)

\* the fetched rows of a name, letter case aside
VariantsOf(product_name) ==
    {i \in 1..Len(lookup.records) :
        lower(lookup.records[i].product_name) = lower(product_name)}

QueriedVariantsOf(product_name) ==
    {i \in VariantsOf(product_name) :
        QueryId # <<>> /\ lookup.records[i].product_id = QueryId}

\* C27: the rows being fetched in descending revenue order, the descriptor of
\* a name group carries the id equal to the query when a row of that id was
\* fetched in the group, and otherwise the id of a variant of the group with
\* the highest revenue.
C27_BaseOfGroup ==
    Searched =>
        /\ InDescendingRevenue(lookup.records)
        /\ \A a \in 1..Len(lookup.outcome.value) :
              LET result == lookup.outcome.value[a]
                  group  == VariantsOf(result.product_name)
              IN  IF QueriedVariantsOf(result.product_name) # {}
                  THEN result.product_id = QueryId
                  ELSE \E i \in group :
                          /\ result.product_id = lookup.records[i].product_id
                          /\ \A j \in group :
                                lookup.records[j].total_revenue
                                    <= lookup.records[i].total_revenue

\* the queried id is the lower-revenue variant of its group, fetched second
C27_Witness ==
    /\ Searched
    /\ QueryId = Chars42
    /\ Len(lookup.records) >= 2
    /\ lookup.records[1].product_id = Chars142
    /\ lookup.records[2].product_id = Chars42
    /\ lookup.records[1].total_revenue > lookup.records[2].total_revenue
    /\ lower(lookup.records[1].product_name) = lower(lookup.records[2].product_name)
    /\ lookup.outcome.value[1].product_id = Chars42

----------------------------------------------------------------------------
(* Chat scenarios: main run again and again for one product, as Streamlit   *)
(* does on every prompt submitted; st.session_state, and with it the chat   *)
(* history, lasts from one run to the next                                  *)

\* config.py:15
CHAT_HISTORY_LIMIT == 12

\* the scenarios stop submitting prompts once the history is this long
MaxMessages == 14

ChatPrompts ==
    {NoQuestion, [none |-> FALSE, words |-> <<"help">>],
     [none |-> FALSE, words |-> <<"segment", "TREND">>]}

ChatEnvironments ==
    {e \in RequestEnvironments :
        e.output_text.none \/ e.output_text.text = Lit("Demand is steady.")}

InitChat ==
    /\ pc = "get_product_details"
    /\ IdleAggregation
    /\ IdleAdapter
    /\ NothingObserved
    /\ monthly = <<>>
    /\ forecast = NotCalled
    /\ call = NoCall
    /\ reply = NoReply
    /\ env \in ChatEnvironments
    /\ digest = [name \in ProductNames |-> 349]
    /\ \E user_prompt \in ChatPrompts :
          session = NewSession("Jade denim", SampleTx, user_prompt)

\* the next run of the script: its locals start afresh, the chat history of
\* the product is the one st.session_state holds (lines 252-255)
Rerun ==
    /\ pc \in {"done", "raised", "stopped"}
    /\ Len(session.chat_history) < MaxMessages
    /\ \E user_prompt \in ChatPrompts :
          session' = [NewSession(session.store.product, session.store.rows,
                                 user_prompt)
                         EXCEPT !.chat_history = session.chat_history]
    /\ pc' = "get_product_details"
    /\ tx' = <<>>
    /\ time_series' = <<>>
    /\ metrics' = NoMetrics
    /\ windows' = NoWindows
    /\ mix' = <<>>
    /\ forecast' = NotCalled
    /\ call' = NoCall
    /\ reply' = NoReply
    /\ UNCHANGED <<adapterVars, observed, monthly, digest, env>>

NextChat == NextRequest \/ Rerun

SpecChat == InitChat /\ [][NextChat]_vars

----------------------------------------------------------------------------
(* Properties of the chat history *)

\* C28: whatever prompts are submitted, the chat history kept for a product
\* in the session never holds more than CHAT_HISTORY_LIMIT messages.
C28_ChatHistoryBounded == Len(session.chat_history) <= CHAT_HISTORY_LIMIT

=============================================================================
